---- MODULE Spec2Model ----
(***************************************************************************)
(* Negotiation strategy engine of the TactoLearn negotiation trainer:      *)
(* the message classifier, the strategy selector, the confidence           *)
(* estimator and the simulate_supplier_response tool with its callers.     *)
(*                                                                         *)
(* Python values are represented as follows.  A str is a sequence of       *)
(* one-character strings, a list is a sequence, a dict is a function on    *)
(* its keys (a record); the empty str, list and dict are all <<>>.  A key  *)
(* whose value is None is a key that is absent: the code reads these       *)
(* dicts only through .get().  Enumerated labels (roles, strategy labels,  *)
(* intents, dict keys) are TLA+ strings.                                   *)
(***************************************************************************)
EXTENDS Integers, Sequences, FiniteSets, TLC

VARIABLES
    pc,                      \* "call" before, "done" after the function under study ran
    user_message,            \* str: the buyer's message
    supplier_data,           \* dict: the supplier profile
    transcript,              \* list of {role, message} dicts
    message_analysis,        \* dict returned by _analyze_user_message
    strategy,                \* outcome of _determine_supplier_strategy
    confidence,              \* float returned by _calculate_confidence
    session_context,         \* dict: the caller's session context
    llm_outcome,             \* what the provider's API does when it is called
    result,                  \* outcome of the tool or request that ran last
    called,                  \* the functions the tool call went through
    transcript_path,         \* str: the transcript_path argument of the summarize tool
    transcript_file,         \* the file at transcript_path
    frontend,                \* the program that owns the session
    request,                 \* the tool call or chat request handled last
    handlers,                \* the /chat handlers the server's event loop started, in that order
    current_supplier,        \* str: session.current_supplier (None is <<>>)
    documents,               \* vector database: supplier profiles stored by the uploads
    snapshots,               \* vector database: stored conversations
    buyer_inventory,         \* list: the buyer's strategy inventory
    supplier_inventory       \* list: the supplier's strategy inventory

vars == <<pc, user_message, supplier_data, transcript, message_analysis,
          strategy, confidence, session_context, llm_outcome, result, called,
          transcript_path, transcript_file, frontend, request, handlers,
          current_supplier, documents, snapshots, buyer_inventory,
          supplier_inventory>>

\* the variables of the session front ends, of the transcript file and of
\* the strategy inventories, idle in the specifications of one function
session_vars == <<transcript_path, transcript_file, frontend, request,
                  handlers, current_supplier, documents, snapshots, buyer_inventory,
                  supplier_inventory>>

\* the variables of the tool call, idle in the specifications of one function
tool_vars == <<session_context, llm_outcome, result, called>>

(***************************************************************************)
(* Bounds of the model.                                                    *)
(***************************************************************************)
MaxWords == 2         \* words in a generated buyer message
MaxTranscript == 3    \* entries in a generated transcript

(***************************************************************************)
(* Python str and truthiness.                                              *)
(***************************************************************************)
UpperCase == <<"A", "B", "C", "D", "E", "F", "G", "H", "I", "J", "K", "L", "M",
               "N", "O", "P", "Q", "R", "S", "T", "U", "V", "W", "X", "Y", "Z">>

LowerCase == <<"a", "b", "c", "d", "e", "f", "g", "h", "i", "j", "k", "l", "m",
               "n", "o", "p", "q", "r", "s", "t", "u", "v", "w", "x", "y", "z">>

\* str.lower() on one character
LowerChar(c) ==
    IF \E i \in 1..26 : UpperCase[i] = c
    THEN LowerCase[CHOOSE i \in 1..26 : UpperCase[i] = c]
    ELSE c

\* str.lower()
Lower(s) == [i \in 1..Len(s) |-> LowerChar(s[i])]

\* `word in text` on two str: word occurs as a contiguous substring
Contains(text, word) ==
    \E i \in 0..(Len(text) - Len(word)) :
        \A j \in 1..Len(word) : text[i + j] = word[j]

\* any(word in text for word in words)
AnyIn(words, text) == \E k \in 1..Len(words) : Contains(text, words[k])

\* bool(v) of a str, list or dict
Truthy(v) == DOMAIN v # {}

\* the idiom `if d.get(key):` : key present with a truthy value
Has(d, key) == key \in DOMAIN d /\ Truthy(d[key])

\* text.startswith(prefix)
StartsWith(text, prefix) ==
    /\ Len(prefix) <= Len(text)
    /\ \A j \in 1..Len(prefix) : text[j] = prefix[j]

(***************************************************************************)
(* Keyword lists of __analyze_user_message, in source order.                *)
(***************************************************************************)
\* ['discount', 'reduce', 'lower', 'cheaper', 'price']
price_words ==
    << <<"d", "i", "s", "c", "o", "u", "n", "t">>,
       <<"r", "e", "d", "u", "c", "e">>,
       <<"l", "o", "w", "e", "r">>,
       <<"c", "h", "e", "a", "p", "e", "r">>,
       <<"p", "r", "i", "c", "e">> >>

\* ['volume', 'quantity', 'bulk', 'more', 'increase']
volume_words ==
    << <<"v", "o", "l", "u", "m", "e">>,
       <<"q", "u", "a", "n", "t", "i", "t", "y">>,
       <<"b", "u", "l", "k">>,
       <<"m", "o", "r", "e">>,
       <<"i", "n", "c", "r", "e", "a", "s", "e">> >>

\* ['quality', 'standard', 'specification', 'defect']
quality_words ==
    << <<"q", "u", "a", "l", "i", "t", "y">>,
       <<"s", "t", "a", "n", "d", "a", "r", "d">>,
       <<"s", "p", "e", "c", "i", "f", "i", "c", "a", "t", "i", "o", "n">>,
       <<"d", "e", "f", "e", "c", "t">> >>

\* ['delivery', 'shipping', 'timeline', 'schedule']
delivery_words ==
    << <<"d", "e", "l", "i", "v", "e", "r", "y">>,
       <<"s", "h", "i", "p", "p", "i", "n", "g">>,
       <<"t", "i", "m", "e", "l", "i", "n", "e">>,
       <<"s", "c", "h", "e", "d", "u", "l", "e">> >>

\* ['urgent', 'asap', 'immediately', 'quickly']
high_urgency_words ==
    << <<"u", "r", "g", "e", "n", "t">>,
       <<"a", "s", "a", "p">>,
       <<"i", "m", "m", "e", "d", "i", "a", "t", "e", "l", "y">>,
       <<"q", "u", "i", "c", "k", "l", "y">> >>

\* ['soon', 'priority', 'important']
medium_urgency_words ==
    << <<"s", "o", "o", "n">>,
       <<"p", "r", "i", "o", "r", "i", "t", "y">>,
       <<"i", "m", "p", "o", "r", "t", "a", "n", "t">> >>

\* ['please', 'thank', 'appreciate', 'would like']
polite_words ==
    << <<"p", "l", "e", "a", "s", "e">>,
       <<"t", "h", "a", "n", "k">>,
       <<"a", "p", "p", "r", "e", "c", "i", "a", "t", "e">>,
       <<"w", "o", "u", "l", "d", " ", "l", "i", "k", "e">> >>

\* ['must', 'require', 'need', 'demand']
demanding_words ==
    << <<"m", "u", "s", "t">>,
       <<"r", "e", "q", "u", "i", "r", "e">>,
       <<"n", "e", "e", "d">>,
       <<"d", "e", "m", "a", "n", "d">> >>

\* ['unacceptable', 'disappointed', 'concerned']
negative_words ==
    << <<"u", "n", "a", "c", "c", "e", "p", "t", "a", "b", "l", "e">>,
       <<"d", "i", "s", "a", "p", "p", "o", "i", "n", "t", "e", "d">>,
       <<"c", "o", "n", "c", "e", "r", "n", "e", "d">> >>

\* ['competitor', 'alternative', 'other supplier']
competition_words ==
    << <<"c", "o", "m", "p", "e", "t", "i", "t", "o", "r">>,
       <<"a", "l", "t", "e", "r", "n", "a", "t", "i", "v", "e">>,
       <<"o", "t", "h", "e", "r", " ", "s", "u", "p", "p", "l", "i", "e", "r">> >>

\* ['long term', 'partnership', 'relationship']
relationship_words ==
    << <<"l", "o", "n", "g", " ", "t", "e", "r", "m">>,
       <<"p", "a", "r", "t", "n", "e", "r", "s", "h", "i", "p">>,
       <<"r", "e", "l", "a", "t", "i", "o", "n", "s", "h", "i", "p">> >>

\* ['market', 'industry', 'trend']
market_words ==
    << <<"m", "a", "r", "k", "e", "t">>,
       <<"i", "n", "d", "u", "s", "t", "r", "y">>,
       <<"t", "r", "e", "n", "d">> >>

(***************************************************************************)
(* __analyze_user_message                                                   *)
(***************************************************************************)
\* IntentOf with the volume group tested before the price group
IntentOf_VolumeFirst(message_lower) ==
    IF AnyIn(volume_words, message_lower) THEN "volume_increase"
    ELSE IF AnyIn(price_words, message_lower) THEN "price_reduction"
    ELSE IF AnyIn(quality_words, message_lower) THEN "quality_discussion"
    ELSE IF AnyIn(delivery_words, message_lower) THEN "delivery_discussion"
    ELSE "general"

\* the if/elif chain that sets intent (and, with it, the one focus flag)
IntentOf(message_lower) ==
    IF AnyIn(price_words, message_lower) THEN "price_reduction"
    ELSE IF AnyIn(volume_words, message_lower) THEN "volume_increase"
    ELSE IF AnyIn(quality_words, message_lower) THEN "quality_discussion"
    ELSE IF AnyIn(delivery_words, message_lower) THEN "delivery_discussion"
    ELSE "general"

\* UrgencyOf with its `if` turned into an `elif` of the intent chain
UrgencyOf_AfterIntent(message_lower) ==
    IF IntentOf(message_lower) # "general" THEN "normal"
    ELSE IF AnyIn(high_urgency_words, message_lower) THEN "high"
    ELSE IF AnyIn(medium_urgency_words, message_lower) THEN "medium"
    ELSE "normal"

\* the if/elif chain that sets urgency
UrgencyOf(message_lower) ==
    IF AnyIn(high_urgency_words, message_lower) THEN "high"
    ELSE IF AnyIn(medium_urgency_words, message_lower) THEN "medium"
    ELSE "normal"

\* ToneOf with the demanding and negative groups tested before the polite group
ToneOf_PoliteLast(message_lower) ==
    IF AnyIn(demanding_words, message_lower) THEN "demanding"
    ELSE IF AnyIn(negative_words, message_lower) THEN "negative"
    ELSE IF AnyIn(polite_words, message_lower) THEN "polite"
    ELSE "professional"

\* the if/elif chain that sets tone
ToneOf(message_lower) ==
    IF AnyIn(polite_words, message_lower) THEN "polite"
    ELSE IF AnyIn(demanding_words, message_lower) THEN "demanding"
    ELSE IF AnyIn(negative_words, message_lower) THEN "negative"
    ELSE "professional"

\* the three independent ifs that append to leverage_points
LeveragePointsOf(message_lower) ==
    (IF AnyIn(competition_words, message_lower) THEN <<"competition">> ELSE <<>>)
    \o (IF AnyIn(relationship_words, message_lower) THEN <<"relationship">> ELSE <<>>)
    \o (IF AnyIn(market_words, message_lower) THEN <<"market_conditions">> ELSE <<>>)

_analyze_user_message(message) ==
    LET message_lower == Lower(message)
        intent == IntentOf(message_lower)
    IN  [ intent |-> intent,
          urgency |-> UrgencyOf(message_lower),
          price_focus |-> (intent = "price_reduction"),
          volume_focus |-> (intent = "volume_increase"),
          quality_focus |-> (intent = "quality_discussion"),
          delivery_focus |-> (intent = "delivery_discussion"),
          tone |-> ToneOf(message_lower),
          leverage_points |-> LeveragePointsOf(message_lower) ]

(***************************************************************************)
(* Buyer messages: up to MaxWords words of Vocabulary separated by blanks. *)
(* The vocabulary has keywords of every list, keywords in upper case or    *)
(* inside a longer word ("needed"), halves of a two-word keyword ("would", *)
(* "like"), a near miss ("pricing") and a neutral word.                    *)
(***************************************************************************)
Vocabulary ==
    { <<"d", "i", "s", "c", "o", "u", "n", "t">>,
      <<"r", "e", "d", "u", "c", "e">>,
      <<"l", "o", "w", "e", "r">>,
      <<"c", "h", "e", "a", "p", "e", "r">>,
      <<"P", "r", "i", "c", "e">>,
      <<"p", "r", "i", "c", "i", "n", "g">>,
      <<"v", "o", "l", "u", "m", "e">>,
      <<"m", "o", "r", "e">>,
      <<"q", "u", "a", "l", "i", "t", "y">>,
      <<"d", "e", "l", "i", "v", "e", "r", "y">>,
      <<"U", "R", "G", "E", "N", "T">>,
      <<"a", "s", "a", "p">>,
      <<"s", "o", "o", "n">>,
      <<"p", "l", "e", "a", "s", "e">>,
      <<"w", "o", "u", "l", "d">>,
      <<"l", "i", "k", "e">>,
      <<"m", "u", "s", "t">>,
      <<"n", "e", "e", "d", "e", "d">>,
      <<"u", "n", "a", "c", "c", "e", "p", "t", "a", "b", "l", "e">>,
      <<"c", "o", "m", "p", "e", "t", "i", "t", "o", "r">>,
      <<"h", "e", "l", "l", "o">> }

RECURSIVE JoinWords(_)
\* " ".join(words)
JoinWords(words) ==
    IF Len(words) = 0 THEN <<>>
    ELSE IF Len(words) = 1 THEN words[1]
    ELSE words[1] \o <<" ">> \o JoinWords(Tail(words))

Messages ==
    { JoinWords(words) : words \in UNION { [1..n -> Vocabulary] : n \in 0..MaxWords } }

NotRun == <<>>

ToolIdle ==
    /\ session_context = <<>>
    /\ llm_outcome = NotRun
    /\ result = NotRun
    /\ called = {}

SessionIdle ==
    /\ transcript_path = <<>>
    /\ transcript_file = <<>>
    /\ frontend = <<>>
    /\ request = <<>>
    /\ handlers = <<>>
    /\ current_supplier = <<>>
    /\ documents = <<>>
    /\ snapshots = <<>>
    /\ buyer_inventory = <<>>
    /\ supplier_inventory = <<>>

(***************************************************************************)
(* Outcome of a Python call: it returns a value or raises an exception.    *)
(***************************************************************************)
Return(value) == [kind |-> "return", value |-> value]

Raise(exception, message) ==
    [kind |-> "raise", exception |-> exception, message |-> message]

(***************************************************************************)
(* Elements of a profile's prices, quality_metrics and delivery_times.     *)
(* _extract_product_data and _extract_metrics (CSV) and the int()/float()  *)
(* conversions of _extract_from_text yield numbers; the prices of          *)
(* _extract_from_text (PDF and text files) are the matched strings.        *)
(***************************************************************************)
Num(n) == [type |-> "float", num |-> n, text |-> <<>>]

Str(s) == [type |-> "str", num |-> 0, text |-> s]

RECURSIVE SumNums(_)
SumNums(list) ==
    IF Len(list) = 0 THEN 0 ELSE list[1].num + SumNums(Tail(list))

TypeErrorIntStr ==
    <<"u", "n", "s", "u", "p", "p", "o", "r", "t", "e", "d", " ", "o", "p", "e", "r", "a", "n", "d", " ", "t", "y", "p", "e", "(", "s", ")", " ", "f", "o", "r", " ", "+", ":", " ", "'", "i", "n", "t", "'", " ", "a", "n", "d", " ", "'", "s", "t", "r", "'">>

\* sum(list): 0 + list[0] + ... raises TypeError at the first str element
PySum(list) ==
    IF \E i \in 1..Len(list) : list[i].type = "str"
    THEN Raise("TypeError", TypeErrorIntStr)
    ELSE Return(SumNums(list))

\* sum(list) / len(list) of a non-empty list, kept as a fraction
Average(list) ==
    LET total == PySum(list)
    IN  IF total.kind = "raise" THEN total
        ELSE Return([num |-> total.value, den |-> Len(list)])

\* avg > threshold and avg < threshold on such a fraction
GreaterThan(avg, threshold) == avg.num > threshold * avg.den

LessThan(avg, threshold) == avg.num < threshold * avg.den

(***************************************************************************)
(* _determine_supplier_strategy                                            *)
(***************************************************************************)
\* [msg for msg in transcript if msg.get("role") == role]
MessagesOfRole(list, role) ==
    SelectSeq(list, LAMBDA msg : "role" \in DOMAIN msg /\ msg.role = role)

\* the strategy_factors list built from the profile (lines 165-190)
StrategyFactors(profile) ==
    LET avg_price == IF Has(profile, "prices")
                     THEN Average(profile.prices) ELSE Return(<<>>)
        avg_quality == IF Has(profile, "quality_metrics")
                       THEN Average(profile.quality_metrics) ELSE Return(<<>>)
        avg_delivery == IF Has(profile, "delivery_times")
                        THEN Average(profile.delivery_times) ELSE Return(<<>>)
    IN  IF avg_price.kind = "raise" THEN avg_price
        ELSE IF avg_quality.kind = "raise" THEN avg_quality
        ELSE IF avg_delivery.kind = "raise" THEN avg_delivery
        ELSE Return(
            (IF ~Has(profile, "prices") THEN <<>>
             ELSE IF GreaterThan(avg_price.value, 1000) THEN <<"premium">>
             ELSE <<"competitive">>)
            \o (IF ~Has(profile, "quality_metrics") THEN <<>>
                ELSE IF GreaterThan(avg_quality.value, 8) THEN <<"quality_focused">>
                ELSE <<"cost_focused">>)
            \o (IF ~Has(profile, "delivery_times") THEN <<>>
                ELSE IF LessThan(avg_delivery.value, 7) THEN <<"fast_delivery">>
                ELSE <<"standard_delivery">>))

\* SelectLabel with the tone rule tested before the building_relationship rule
SelectLabel_DefensiveFirst(supplier_messages, analysis) ==
    IF Len(supplier_messages) = 0 THEN "initial_response"
    ELSE IF analysis.tone = "demanding" THEN "defensive"
    ELSE IF Len(supplier_messages) < 2 THEN "building_relationship"
    ELSE IF \E i \in 1..Len(analysis.leverage_points) :
                analysis.leverage_points[i] = "competition" THEN "competitive"
    ELSE IF analysis.urgency = "high" THEN "opportunistic"
    ELSE "collaborative"

\* the if/elif chain that returns the label (lines 193-206)
SelectLabel(supplier_messages, analysis) ==
    IF Len(supplier_messages) = 0 THEN "initial_response"
    ELSE IF Len(supplier_messages) < 2 THEN "building_relationship"
    ELSE IF analysis.tone = "demanding" THEN "defensive"
    ELSE IF \E i \in 1..Len(analysis.leverage_points) :
                analysis.leverage_points[i] = "competition" THEN "competitive"
    ELSE IF analysis.urgency = "high" THEN "opportunistic"
    ELSE IF analysis.price_focus /\ Len(supplier_messages) >= 2 THEN "collaborative"
    ELSE "collaborative"

\* the label chosen by the number of all the entries of the history
_determine_supplier_strategy_CountsAllEntries(profile, history, analysis) ==
    LET strategy_factors == StrategyFactors(profile)
    IN  IF strategy_factors.kind = "raise" THEN strategy_factors
        ELSE Return(SelectLabel(history, analysis))

\* _determine_supplier_strategy (lines 154-206)
_determine_supplier_strategy(profile, history, analysis) ==
    LET supplier_messages == MessagesOfRole(history, "supplier")
        buyer_messages == MessagesOfRole(history, "buyer")
        strategy_factors == StrategyFactors(profile)
    IN  IF strategy_factors.kind = "raise" THEN strategy_factors
        ELSE Return(SelectLabel(supplier_messages, analysis))

(***************************************************************************)
(* Python float (IEEE 754 binary64) for the values of _calculate_confidence*)
(* which lie in [0.1, 2): a float is the exact integer number of units of  *)
(* 2^-55 it is worth, held in two limbs hi * 2^28 + lo.                    *)
(***************************************************************************)
LimbBase == 268435456

Float(hi, lo) == [hi |-> hi, lo |-> lo]

\* the literal 0.5 = 0x1.0000000000000p-1
Float_0_5 == Float(67108864, 0)

\* the literal 0.1 = 0x1.999999999999ap-4
Float_0_1 == Float(13421772, 214748365)

\* the literal 1.0 = 0x1.0000000000000p+0
Float_1_0 == Float(134217728, 0)

\* a <= b
FloatLE(a, b) == a.hi < b.hi \/ (a.hi = b.hi /\ a.lo <= b.lo)

\* a + b for a sum in [0.5, 2): the exact sum rounded to the nearest float,
\* ties to even; floats are 4 units apart in [0.5, 1) and 8 in [1, 2)
FloatAdd(a, b) ==
    LET lo_sum == a.lo + b.lo
        hi_sum == a.hi + b.hi + (lo_sum \div LimbBase)
        lo_exact == lo_sum % LimbBase
        ulp == IF hi_sum >= Float_1_0.hi THEN 8 ELSE 4
        quotient == lo_exact \div ulp
        remainder == lo_exact % ulp
        round_up == \/ 2 * remainder > ulp
                    \/ (2 * remainder = ulp /\ quotient % 2 = 1)
        lo_rounded == (quotient + (IF round_up THEN 1 ELSE 0)) * ulp
    IN  Float(hi_sum + (lo_rounded \div LimbBase), lo_rounded % LimbBase)

\* min(a, b)
FloatMin(a, b) == IF FloatLE(a, b) THEN a ELSE b

(***************************************************************************)
(* _calculate_confidence                                                   *)
(***************************************************************************)
\* confidence += 0.1 under the condition
AddIf(condition, value) ==
    IF condition THEN FloatAdd(value, Float_0_1) ELSE value

\* the sum before the final min()
ConfidenceSum(profile, analysis) ==
    LET base == Float_0_5
        with_name == AddIf(Has(profile, "supplier_name"), base)
        with_prices == AddIf(Has(profile, "prices"), with_name)
        with_products == AddIf(Has(profile, "products"), with_prices)
        with_quality == AddIf(Has(profile, "quality_metrics"), with_products)
        with_delivery == AddIf(Has(profile, "delivery_times"), with_quality)
    IN  AddIf(analysis.intent # "general", with_delivery)

\* _calculate_confidence returning the sum without min()
_calculate_confidence_NoClamp(profile, analysis) ==
    ConfidenceSum(profile, analysis)

_calculate_confidence(profile, analysis) ==
    FloatMin(ConfidenceSum(profile, analysis), Float_1_0)

(***************************************************************************)
(* LLMService.generate_supplier_response (llm_service.py).  The prompt is  *)
(* read by the provider only: the context and the prompt are kept as       *)
(* structures, not rendered to text.  `api` is what the provider's client  *)
(* does with the request: it returns the content or raises.                *)
(***************************************************************************)
\* list[:n]
Take(list, n) == SubSeq(list, 1, IF Len(list) < n THEN Len(list) ELSE n)

\* list[-n:]
LastOf(list, n) ==
    SubSeq(list, (IF Len(list) < n THEN 0 ELSE Len(list) - n) + 1, Len(list))

Whitespace == {" ", "\n", "\t"}

RECURSIVE StripLeft(_)
StripLeft(text) ==
    IF Len(text) > 0 /\ text[1] \in Whitespace THEN StripLeft(Tail(text)) ELSE text

RECURSIVE StripRight(_)
StripRight(text) ==
    IF Len(text) > 0 /\ text[Len(text)] \in Whitespace
    THEN StripRight(SubSeq(text, 1, Len(text) - 1)) ELSE text

\* str.strip()
Strip(text) == StripRight(StripLeft(text))

\* the averages of the context, or the exception of the first that raises
_build_supplier_context(profile, conversation_history, label) ==
    LET avg_price == IF Has(profile, "prices")
                     THEN Average(Take(profile.prices, 5)) ELSE Return(<<>>)
        avg_quality == IF Has(profile, "quality_metrics")
                       THEN Average(Take(profile.quality_metrics, 5))
                       ELSE Return(<<>>)
        avg_delivery == IF Has(profile, "delivery_times")
                        THEN Average(Take(profile.delivery_times, 5))
                        ELSE Return(<<>>)
        recent_messages == LastOf(conversation_history, 4)
    IN  IF avg_price.kind = "raise" THEN avg_price
        ELSE IF avg_quality.kind = "raise" THEN avg_quality
        ELSE IF avg_delivery.kind = "raise" THEN avg_delivery
        ELSE Return(
            [ supplier |-> IF Has(profile, "supplier_name")
                           THEN profile.supplier_name ELSE <<>>,
              products |-> IF Has(profile, "products")
                           THEN Take(profile.products, 5) ELSE <<>>,
              average_price |-> avg_price.value,
              quality_rating |-> avg_quality.value,
              average_delivery_time |-> avg_delivery.value,
              recent_conversation |->
                  [ i \in 1..Len(recent_messages) |->
                      [ role |-> IF "role" \in DOMAIN recent_messages[i]
                                 THEN recent_messages[i].role ELSE "unknown",
                        message |-> IF "message" \in DOMAIN recent_messages[i]
                                    THEN Take(recent_messages[i].message, 100)
                                    ELSE <<>> ] ] ])

_create_supplier_prompt(message, context, label) ==
    [ context |-> context,
      strategy |-> label,
      instruction |-> IF label \in {"initial_response", "building_relationship",
                                    "defensive", "competitive", "opportunistic",
                                    "collaborative"}
                      THEN label ELSE "default",
      user_message |-> message ]

\* _call_llm, _call_openai, _call_anthropic: the stripped content, or the
\* client's exception re-raised
_call_llm(prompt, api) ==
    IF api.kind = "raise" THEN api ELSE Return(Strip(api.value))

LLMFailurePrefix == <<"L", "L", "M", " ", "c", "a", "l", "l", " ", "d", "i", "d", "n", "'", "t", " ", "w", "o", "r", "k", ":", " ">>

CannedReply == <<"T", "h", "a", "n", "k", " ", "y", "o", "u", " ", "f", "o", "r", " ", "y", "o", "u", "r", " ", "m", "e", "s", "s", "a", "g", "e", ".">>

\* generate_supplier_response answering a failure with a canned reply
generate_supplier_response_CannedFallback(message, profile, conversation_history, label, api) ==
    LET context == _build_supplier_context(profile, conversation_history, label)
        response == _call_llm(
                        _create_supplier_prompt(message, context.value, label), api)
    IN  IF context.kind = "raise"
        THEN [ outcome |-> Return(CannedReply),
               called |-> {"_build_supplier_context"} ]
        ELSE IF response.kind = "raise"
        THEN [ outcome |-> Return(CannedReply),
               called |-> {"_build_supplier_context", "_create_supplier_prompt",
                           "_call_llm"} ]
        ELSE [ outcome |-> response,
               called |-> {"_build_supplier_context", "_create_supplier_prompt",
                           "_call_llm"} ]

\* the whole body is inside try/except Exception: every exception becomes
\* the returned string "LLM call didn't work: " + str(e)
generate_supplier_response(message, profile, conversation_history, label, api) ==
    LET context == _build_supplier_context(profile, conversation_history, label)
        response == _call_llm(
                        _create_supplier_prompt(message, context.value, label), api)
    IN  IF context.kind = "raise"
        THEN [ outcome |-> Return(LLMFailurePrefix \o context.message),
               called |-> {"_build_supplier_context"} ]
        ELSE IF response.kind = "raise"
        THEN [ outcome |-> Return(LLMFailurePrefix \o response.message),
               called |-> {"_build_supplier_context", "_create_supplier_prompt",
                           "_call_llm"} ]
        ELSE [ outcome |-> response,
               called |-> {"_build_supplier_context", "_create_supplier_prompt",
                           "_call_llm"} ]

(***************************************************************************)
(* simulate_supplier_response_tool and _generate_supplier_response         *)
(***************************************************************************)
\* the float 0.0
Float_0_0 == Float(0, 0)

_generate_supplier_response(message, profile, history, api) ==
    LET analysis == _analyze_user_message(message)
        label == _determine_supplier_strategy(profile, history, analysis)
        generated == generate_supplier_response(message, profile, history,
                                                label.value, api)
    IN  IF label.kind = "raise"
        THEN [ outcome |-> label,
               called |-> {"_analyze_user_message", "_determine_supplier_strategy"} ]
        ELSE IF generated.outcome.kind = "raise"
        THEN [ outcome |->
                   Return([ response |-> LLMFailurePrefix \o generated.outcome.message,
                            confidence |-> Float_0_0,
                            strategy |-> "error",
                            message_analysis |-> analysis ]),
               called |-> {"_analyze_user_message", "_determine_supplier_strategy",
                           "generate_supplier_response"} \cup generated.called ]
        ELSE [ outcome |->
                   Return([ response |-> generated.outcome.value,
                            confidence |-> _calculate_confidence(profile, analysis),
                            strategy |-> label.value,
                            message_analysis |-> analysis ]),
               called |-> {"_analyze_user_message", "_determine_supplier_strategy",
                           "generate_supplier_response", "_calculate_confidence"}
                          \cup generated.called ]

NoDataResponse ==
    <<"I", " ", "d", "o", "n", "'", "t", " ", "h", "a", "v", "e", " ", "a", "n", "y", " ", "s", "u", "p", "p", "l", "i", "e", "r", " ", "d", "a", "t", "a", " ", "l", "o", "a", "d", "e", "d", ".", " ", "P", "l", "e", "a", "s", "e", " ", "a", "n", "a", "l", "y", "z", "e", " ", "a", " ", "s", "u", "p", "p", "l", "i", "e", "r", " ", "f", "i", "l", "e", " ", "f", "i", "r", "s", "t", ".">>

ApologyPrefix ==
    <<"I", " ", "a", "p", "o", "l", "o", "g", "i", "z", "e", ",", " ", "b", "u", "t", " ", "I", "'", "m", " ", "h", "a", "v", "i", "n", "g", " ", "t", "r", "o", "u", "b", "l", "e", " ", "p", "r", "o", "c", "e", "s", "s", "i", "n", "g", " ", "y", "o", "u", "r", " ", "r", "e", "q", "u", "e", "s", "t", " ", "r", "i", "g", "h", "t", " ", "n", "o", "w", ".", " ">>

\* session_context.get('supplier_data', {})
SupplierDataOf(context) ==
    IF "supplier_data" \in DOMAIN context THEN context.supplier_data ELSE <<>>

\* simulate_supplier_response_tool without the guard on missing supplier data
simulate_supplier_response_tool_NoGuard(message, context, negotiation_transcript, api) ==
    LET profile == SupplierDataOf(context)
        response_data == _generate_supplier_response(message, profile,
                                                     negotiation_transcript, api)
    IN  IF response_data.outcome.kind = "raise"
        THEN [ outcome |->
                   Return([ response |-> ApologyPrefix \o response_data.outcome.message,
                            confidence |-> Float_0_0,
                            strategy |-> "error" ]),
               called |-> {"_generate_supplier_response"} \cup response_data.called ]
        ELSE [ outcome |-> response_data.outcome,
               called |-> {"_generate_supplier_response"} \cup response_data.called ]

simulate_supplier_response_tool(message, context, negotiation_transcript, api) ==
    LET profile == SupplierDataOf(context)
        response_data == _generate_supplier_response(message, profile,
                                                     negotiation_transcript, api)
    IN  IF ~Truthy(profile)
        THEN [ outcome |-> Return([ response |-> NoDataResponse,
                                    confidence |-> Float_0_0,
                                    strategy |-> "no_data" ]),
               called |-> {} ]
        ELSE IF response_data.outcome.kind = "raise"
        THEN [ outcome |->
                   Return([ response |-> ApologyPrefix \o response_data.outcome.message,
                            confidence |-> Float_0_0,
                            strategy |-> "error" ]),
               called |-> {"_generate_supplier_response"} \cup response_data.called ]
        ELSE [ outcome |-> response_data.outcome,
               called |-> {"_generate_supplier_response"} \cup response_data.called ]

(***************************************************************************)
(* SpecClassify: the classifier applied to every message of Messages.      *)
(***************************************************************************)
InitClassify ==
    /\ pc = "call"
    /\ user_message \in Messages
    /\ supplier_data = <<>>
    /\ transcript = <<>>
    /\ message_analysis = NotRun
    /\ strategy = NotRun
    /\ confidence = NotRun
    /\ ToolIdle
    /\ SessionIdle

AnalyzeUserMessage ==
    /\ pc = "call"
    /\ message_analysis' = _analyze_user_message(user_message)
    /\ pc' = "done"
    /\ UNCHANGED <<user_message, supplier_data, transcript, strategy, confidence>>
    /\ UNCHANGED tool_vars
    /\ UNCHANGED session_vars

NextClassify == AnalyzeUserMessage

SpecClassify == InitClassify /\ [][NextClassify]_vars

(***************************************************************************)
(* Inputs of the strategy selector.                                        *)
(***************************************************************************)
\* prices on both sides of the 1000 threshold, and as _extract_from_text
\* leaves them
PriceLists ==
    { <<>>, <<Num(500)>>, <<Num(1500)>>, <<Num(500), Num(1500)>>,
      <<Str(<<"$", "1", "2", "5", ".", "5", "0">>)>> }

\* quality scores on both sides of the 8.0 threshold
QualityLists == { <<>>, <<Num(5)>>, <<Num(9)>> }

\* delivery times on both sides of the 7 days threshold
DeliveryLists == { <<>>, <<Num(3)>>, <<Num(14)>> }

FieldLists(key) ==
    CASE key = "prices" -> PriceLists
      [] key = "quality_metrics" -> QualityLists
      [] key = "delivery_times" -> DeliveryLists

\* profiles with each of the three keys missing, empty or filled
StrategyProfiles ==
    UNION { { profile \in [keys -> PriceLists \cup QualityLists \cup DeliveryLists] :
                \A key \in keys : profile[key] \in FieldLists(key) } :
            keys \in SUBSET {"prices", "quality_metrics", "delivery_times"} }

Roles == {"buyer", "supplier"}

Entry(role, message) == [role |-> role, message |-> message]

Hello == <<"h", "e", "l", "l", "o">>

\* transcripts of up to MaxTranscript entries, any order of roles
Transcripts ==
    UNION { { [i \in 1..n |-> Entry(roles[i], Hello)] : roles \in [1..n -> Roles] } :
            n \in 0..MaxTranscript }

Tones == {"professional", "polite", "demanding", "negative"}

Urgencies == {"normal", "medium", "high"}

\* the leverage_points lists the classifier can build
LeverageLists ==
    { <<>>, <<"competition">>, <<"relationship">>, <<"market_conditions">>,
      <<"competition", "relationship">>, <<"competition", "market_conditions">>,
      <<"relationship", "market_conditions">>,
      <<"competition", "relationship", "market_conditions">> }

\* message analyses with every tone, urgency and leverage list, with and
\* without price focus
Signals ==
    { [ intent |-> intent,
        urgency |-> urgency,
        price_focus |-> (intent = "price_reduction"),
        volume_focus |-> FALSE,
        quality_focus |-> FALSE,
        delivery_focus |-> FALSE,
        tone |-> tone,
        leverage_points |-> leverage ] :
      intent \in {"general", "price_reduction"}, urgency \in Urgencies,
      tone \in Tones, leverage \in LeverageLists }

(***************************************************************************)
(* SpecStrategy: the selector applied to every profile, transcript and     *)
(* message analysis drawn above.                                           *)
(***************************************************************************)
InitStrategy ==
    /\ pc = "call"
    /\ user_message = <<>>
    /\ supplier_data \in StrategyProfiles
    /\ transcript \in Transcripts
    /\ message_analysis \in Signals
    /\ strategy = NotRun
    /\ confidence = NotRun
    /\ ToolIdle
    /\ SessionIdle

DetermineSupplierStrategy ==
    /\ pc = "call"
    /\ strategy' = _determine_supplier_strategy(supplier_data, transcript,
                                                message_analysis)
    /\ pc' = "done"
    /\ UNCHANGED <<user_message, supplier_data, transcript, message_analysis,
                   confidence>>
    /\ UNCHANGED tool_vars
    /\ UNCHANGED session_vars

NextStrategy == DetermineSupplierStrategy

SpecStrategy == InitStrategy /\ [][NextStrategy]_vars

(***************************************************************************)
(* SpecConfidence: the confidence estimator applied to profiles with each  *)
(* of the five keys it reads missing, empty or filled, and to an analysis  *)
(* of every intent.                                                        *)
(***************************************************************************)
ConfidenceKeys ==
    {"supplier_name", "prices", "products", "quality_metrics", "delivery_times"}

\* a truthy value of the key
Filled(key) ==
    CASE key = "supplier_name" -> <<"A", "C", "M", "E">>
      [] key = "prices" -> <<Num(1500)>>
      [] key = "products" -> << <<"V", "a", "l", "v", "e", "s">> >>
      [] key = "quality_metrics" -> <<Num(9)>>
      [] key = "delivery_times" -> <<Num(14)>>

\* each subset of the keys present, each present key empty or filled
ConfidenceProfiles ==
    UNION { { [key \in keys |-> IF key \in filled THEN Filled(key) ELSE <<>>] :
                filled \in SUBSET keys } :
            keys \in SUBSET ConfidenceKeys }

Intents ==
    {"general", "price_reduction", "volume_increase", "quality_discussion",
     "delivery_discussion"}

IntentSignals ==
    { [ intent |-> intent,
        urgency |-> "normal",
        price_focus |-> (intent = "price_reduction"),
        volume_focus |-> (intent = "volume_increase"),
        quality_focus |-> (intent = "quality_discussion"),
        delivery_focus |-> (intent = "delivery_discussion"),
        tone |-> "professional",
        leverage_points |-> <<>> ] : intent \in Intents }

InitConfidence ==
    /\ pc = "call"
    /\ user_message = <<>>
    /\ supplier_data \in ConfidenceProfiles
    /\ transcript = <<>>
    /\ message_analysis \in IntentSignals
    /\ strategy = NotRun
    /\ confidence = NotRun
    /\ ToolIdle
    /\ SessionIdle

CalculateConfidence ==
    /\ pc = "call"
    /\ confidence' = _calculate_confidence(supplier_data, message_analysis)
    /\ pc' = "done"
    /\ UNCHANGED <<user_message, supplier_data, transcript, message_analysis,
                   strategy>>
    /\ UNCHANGED tool_vars
    /\ UNCHANGED session_vars

NextConfidence == CalculateConfidence

SpecConfidence == InitConfidence /\ [][NextConfidence]_vars

(***************************************************************************)
(* SpecTool: simulate_supplier_response_tool called once, on every session *)
(* context, transcript, buyer message and provider outcome drawn below.    *)
(***************************************************************************)
\* a profile as _analyze_csv_file builds it: numeric prices
CsvProfile ==
    [ file_type |-> "csv",
      supplier_name |-> Filled("supplier_name"),
      products |-> Filled("products"),
      prices |-> <<Num(500), Num(1500)>>,
      delivery_times |-> <<Num(14)>>,
      quality_metrics |-> <<Num(9)>>,
      past_volumes |-> <<>> ]

\* a profile as _analyze_text_file builds it from a text with a price: the
\* prices are the matched strings
TextProfile ==
    [ file_type |-> "text",
      supplier_name |-> Filled("supplier_name"),
      products |-> <<>>,
      prices |-> <<Str(<<"$", "1", "2", "5", ".", "5", "0">>)>>,
      delivery_times |-> <<Num(14)>>,
      quality_metrics |-> <<Num(9)>>,
      past_volumes |-> <<>> ]

\* a profile as _analyze_text_file builds it from a text where nothing matches
BareProfile ==
    [ file_type |-> "text",
      products |-> <<>>,
      prices |-> <<>>,
      delivery_times |-> <<>>,
      quality_metrics |-> <<>>,
      past_volumes |-> <<>> ]

FilePath(profile) ==
    IF profile.file_type = "csv" THEN <<"s", "u", "p", "p", "l", "i", "e", "r", ".", "c", "s", "v">> ELSE <<"c", "o", "n", "t", "r", "a", "c", "t", ".", "t", "x", "t">>

\* datetime.now().isoformat() at the time of the analysis
Timestamp == <<"2", "0", "2", "4", "-", "0", "1", "-", "0", "1", "T", "0", "0", ":", "0", "0", ":", "0", "0">>

\* the context before any analysis, with an empty profile, and after
\* analyze_supplier_tool stored one
SessionContexts ==
    { <<>>, [supplier_data |-> <<>>] }
    \cup { [ supplier_data |-> profile,
             last_analyzed_file |-> FilePath(profile),
             analysis_timestamp |-> Timestamp ] :
             profile \in {CsvProfile, TextProfile, BareProfile} }

ToolMessages ==
    { <<"h", "e", "l", "l", "o">>,
      <<"W", "e", " ", "m", "u", "s", "t", " ", "h", "a", "v", "e", " ", "a", " ", "d", "i", "s", "c", "o", "u", "n", "t">>,
      <<"U", "R", "G", "E", "N", "T", ":", " ", "a", " ", "c", "o", "m", "p", "e", "t", "i", "t", "o", "r", " ", "i", "s", " ", "c", "h", "e", "a", "p", "e", "r">>,
      <<"p", "l", "e", "a", "s", "e", " ", "s", "e", "n", "d", " ", "t", "h", "e", " ", "s", "c", "h", "e", "d", "u", "l", "e">> }

\* the provider answers (the content has a trailing newline) or fails
ProviderOutcomes ==
    { Return(<<"I", " ", "c", "a", "n", " ", "o", "f", "f", "e", "r", " ", "8", "%", " ", "o", "f", "f", ".", "\n">>),
      Return(<<"L", "e", "t", " ", "m", "e", " ", "c", "h", "e", "c", "k", " ", "w", "i", "t", "h", " ", "m", "y", " ", "m", "a", "n", "a", "g", "e", "r">>),
      Raise("APIConnectionError", <<"C", "o", "n", "n", "e", "c", "t", "i", "o", "n", " ", "e", "r", "r", "o", "r", ".">>),
      Raise("APITimeoutError", <<"R", "e", "q", "u", "e", "s", "t", " ", "t", "i", "m", "e", "d", " ", "o", "u", "t", ".">>) }

InitTool ==
    /\ pc = "call"
    /\ user_message \in ToolMessages
    /\ supplier_data = <<>>
    /\ transcript \in Transcripts
    /\ message_analysis = NotRun
    /\ strategy = NotRun
    /\ confidence = NotRun
    /\ session_context \in SessionContexts
    /\ llm_outcome \in ProviderOutcomes
    /\ result = NotRun
    /\ called = {}
    /\ SessionIdle

SimulateSupplierResponse ==
    /\ pc = "call"
    /\ LET call == simulate_supplier_response_tool(user_message, session_context,
                                                   transcript, llm_outcome)
       IN  /\ result' = call.outcome
           /\ called' = call.called
    /\ pc' = "done"
    /\ UNCHANGED <<user_message, supplier_data, transcript, message_analysis,
                   strategy, confidence, session_context, llm_outcome>>
    /\ UNCHANGED session_vars

NextTool == SimulateSupplierResponse

SpecTool == InitTool /\ [][NextTool]_vars

StrategyLabels ==
    {"initial_response", "building_relationship", "defensive", "competitive",
     "opportunistic", "collaborative"}

\* number of supplier entries of the transcript
SupplierEntries ==
    Cardinality({ i \in 1..Len(transcript) : transcript[i].role = "supplier" })

\* the label of the first matching rule of the enumerated precedence
FirstMatchingRule ==
    IF SupplierEntries = 0 THEN "initial_response"
    ELSE IF SupplierEntries < 2 THEN "building_relationship"
    ELSE IF message_analysis.tone = "demanding" THEN "defensive"
    ELSE IF "competition" \in
                { message_analysis.leverage_points[i] :
                    i \in 1..Len(message_analysis.leverage_points) }
         THEN "competitive"
    ELSE IF message_analysis.urgency = "high" THEN "opportunistic"
    ELSE "collaborative"

\* the profile's prices hold a str, as _extract_from_text leaves them
TextPrices ==
    /\ "prices" \in DOMAIN supplier_data
    /\ \E i \in 1..Len(supplier_data.prices) : supplier_data.prices[i].type = "str"

(***************************************************************************)
(* C1: for every profile, transcript and message analysis the selector     *)
(* returns the label of the first matching rule of the precedence          *)
(* initial_response, building_relationship, defensive, competitive,        *)
(* opportunistic, collaborative; with no supplier entry it returns         *)
(* initial_response.                                                       *)
(***************************************************************************)
C1_FirstMatchingRule ==
    pc = "done" =>
        /\ strategy = Return(FirstMatchingRule)
        /\ SupplierEntries = 0 => strategy = Return("initial_response")

(***************************************************************************)
(* C2 as stated: with exactly one supplier entry a label the selector      *)
(* returns is defensive when the tone is demanding and                     *)
(* building_relationship otherwise.                                        *)
(***************************************************************************)
C2_DefensiveWhenDemanding ==
    (pc = "done" /\ SupplierEntries = 1 /\ strategy.kind = "return") =>
        strategy.value = IF message_analysis.tone = "demanding"
                         THEN "defensive" ELSE "building_relationship"

(***************************************************************************)
(* C2 amended: with exactly one supplier entry every label the selector    *)
(* returns is building_relationship, whether the tone is demanding or not, *)
(* and it returns one for every profile whose prices are numbers.          *)
(***************************************************************************)
C2_BuildingRelationshipWhateverTone ==
    (pc = "done" /\ SupplierEntries = 1) =>
        /\ strategy.kind = "return" => strategy.value = "building_relationship"
        /\ ~TextPrices => strategy.kind = "return"

\* a demanding message after one supplier entry, answered building_relationship
C2_Witness ==
    /\ pc = "done"
    /\ SupplierEntries = 1
    /\ message_analysis.tone = "demanding"
    /\ strategy = Return("building_relationship")

(***************************************************************************)
(* C3: the outcome of the selector does not depend on the profile (every   *)
(* profile gives, for the same transcript and message analysis, the same   *)
(* label), and the call leaves the transcript and the profile as they were.*)
(***************************************************************************)
C3_ProfileIndependent ==
    pc = "done" =>
        \A profile \in StrategyProfiles :
            /\ strategy.kind = "return"
            /\ _determine_supplier_strategy(profile, transcript, message_analysis)
                   = strategy

(***************************************************************************)
(* C4: the selector is total and closed: for every profile, transcript and *)
(* message analysis it returns, without raising, one of the six labels.    *)
(***************************************************************************)
C4_TotalAndClosed ==
    pc = "done" =>
        /\ strategy.kind = "return"
        /\ strategy.value \in StrategyLabels

(***************************************************************************)
(* What holds of the selector in place of C1, C3 and C4: it raises exactly *)
(* on the profiles whose prices hold a str, and otherwise returns the      *)
(* label of the first matching rule, one of the six labels.                *)
(***************************************************************************)
SelectorRaisesOnTextPrices ==
    pc = "done" =>
        /\ TextPrices <=> strategy.kind = "raise"
        /\ TextPrices => strategy.exception = "TypeError"
        /\ ~TextPrices => /\ strategy = Return(FirstMatchingRule)
                          /\ strategy.value \in StrategyLabels

\* the message holds, in any letter case, a keyword of the list
Mentions(message, words) == AnyIn(words, Lower(message))

\* the focus flags of an analysis that are set
FocusFlags(analysis) ==
    { f \in {"price_focus", "volume_focus", "quality_focus", "delivery_focus"} :
        analysis[f] }

(***************************************************************************)
(* C5: the intent is that of the first keyword group the message mentions, *)
(* in the order price_reduction, volume_increase, quality_discussion,      *)
(* delivery_discussion, and general when it mentions none; a price keyword *)
(* wins over volume, quality and delivery keywords; at most one focus flag *)
(* is set, the one of the intent.                                          *)
(***************************************************************************)
C5_IntentPriority ==
    pc = "done" =>
        LET price == Mentions(user_message, price_words)
            volume == Mentions(user_message, volume_words)
            quality == Mentions(user_message, quality_words)
            delivery == Mentions(user_message, delivery_words)
            intent == message_analysis.intent
        IN  /\ price => intent = "price_reduction"
            /\ (~price /\ volume) => intent = "volume_increase"
            /\ (~price /\ ~volume /\ quality) => intent = "quality_discussion"
            /\ (~price /\ ~volume /\ ~quality /\ delivery)
                   => intent = "delivery_discussion"
            /\ (~price /\ ~volume /\ ~quality /\ ~delivery) => intent = "general"
            /\ FocusFlags(message_analysis) =
                   CASE intent = "price_reduction" -> {"price_focus"}
                     [] intent = "volume_increase" -> {"volume_focus"}
                     [] intent = "quality_discussion" -> {"quality_focus"}
                     [] intent = "delivery_discussion" -> {"delivery_focus"}
                     [] OTHER -> {}

\* a classified message with a price keyword and a volume keyword
C5_Witness ==
    /\ pc = "done"
    /\ Mentions(user_message, price_words)
    /\ Mentions(user_message, volume_words)
    /\ message_analysis.intent = "price_reduction"
    /\ FocusFlags(message_analysis) = {"price_focus"}

(***************************************************************************)
(* C6 as stated: the tone is polite only when the message has a polite     *)
(* keyword and neither a demanding nor a negative keyword.                 *)
(***************************************************************************)
C6_PoliteOnlyWithoutDemanding ==
    (pc = "done" /\ message_analysis.tone = "polite") =>
        /\ Mentions(user_message, polite_words)
        /\ ~Mentions(user_message, demanding_words)
        /\ ~Mentions(user_message, negative_words)

(***************************************************************************)
(* C6 amended: the tone is polite exactly when the message has a polite    *)
(* keyword, whatever demanding or negative keywords it also has; it is     *)
(* demanding exactly when it has a demanding keyword and no polite one,    *)
(* negative exactly when it has a negative keyword and neither a polite    *)
(* nor a demanding one, and professional otherwise.                        *)
(***************************************************************************)
C6_PoliteFirst ==
    pc = "done" =>
        LET polite == Mentions(user_message, polite_words)
            demanding == Mentions(user_message, demanding_words)
            negative == Mentions(user_message, negative_words)
            tone == message_analysis.tone
        IN  /\ tone = "polite" <=> polite
            /\ tone = "demanding" <=> (~polite /\ demanding)
            /\ tone = "negative" <=> (~polite /\ ~demanding /\ negative)
            /\ tone = "professional" <=> (~polite /\ ~demanding /\ ~negative)

\* a message with a polite and a demanding keyword, classified polite
C6_Witness ==
    /\ pc = "done"
    /\ Mentions(user_message, polite_words)
    /\ Mentions(user_message, demanding_words)
    /\ message_analysis.tone = "polite"

(***************************************************************************)
(* C7: the urgency is high when the message has a high-urgency keyword,    *)
(* else medium when it has a medium-urgency keyword, else normal; and a    *)
(* message extended by a word without urgency keyword, whatever intent or  *)
(* tone keyword that word is, keeps its urgency.                           *)
(***************************************************************************)
C7_UrgencyByKeywords ==
    pc = "done" =>
        LET high == Mentions(user_message, high_urgency_words)
            medium == Mentions(user_message, medium_urgency_words)
            urgency == message_analysis.urgency
        IN  /\ urgency = "high" <=> high
            /\ urgency = "medium" <=> (~high /\ medium)
            /\ urgency = "normal" <=> (~high /\ ~medium)
            /\ \A word \in Vocabulary :
                   (~Mentions(word, high_urgency_words)
                    /\ ~Mentions(word, medium_urgency_words))
                   => _analyze_user_message(JoinWords(<<user_message, word>>)).urgency
                          = urgency

\* an urgent message that also has a price keyword
C7_Witness ==
    /\ pc = "done"
    /\ Mentions(user_message, high_urgency_words)
    /\ Mentions(user_message, price_words)
    /\ message_analysis.urgency = "high"
    /\ message_analysis.intent = "price_reduction"

\* k: the number of satisfied conditions among the five non-empty profile
\* fields and intent # general
SatisfiedConditions ==
    Cardinality({ key \in ConfidenceKeys :
                    key \in DOMAIN supplier_data /\ supplier_data[key] # <<>> })
    + (IF message_analysis.intent # "general" THEN 1 ELSE 0)

\* the floats 0.5, 0.6, 0.7, 0.8, 0.9, 1.0, 1.0 that min(1.0, 0.5 + 0.1 * k)
\* evaluates to for k = 0..6
ClampedTenths ==
    << Float(67108864, 0), Float(80530636, 214748364), Float(93952409, 161061272),
       Float(107374182, 107374184), Float(120795955, 53687092),
       Float(134217728, 0), Float(134217728, 0) >>

\* the profile with one more field filled
FillField(profile, key) ==
    [k \in DOMAIN profile \cup {key} |-> IF k = key THEN Filled(key) ELSE profile[k]]

\* a - b in units of 2^-55, for floats less than one limb apart
FloatDiff(a, b) == (a.hi - b.hi) * LimbBase + (a.lo - b.lo)

(***************************************************************************)
(* C8 as stated: the confidence equals min(1.0, 0.5 + 0.1 * k) for the     *)
(* number k of satisfied conditions.                                       *)
(***************************************************************************)
C8_EqualsClampedSum ==
    pc = "done" => confidence = ClampedTenths[SatisfiedConditions + 1]

(***************************************************************************)
(* C8 amended: the confidence is min(1.0, 0.5 + 0.1 * k) for k = 0, 1, 2   *)
(* and 6, and one unit in the last place (2^-53) below it for k = 3, 4, 5, *)
(* where the repeated addition of 0.1 has rounded down; it lies in         *)
(* [0.5, 1.0], never decreases when one more profile field becomes         *)
(* non-empty, and is 1.0 when all six conditions hold.                     *)
(***************************************************************************)
C8_ClampedSumWithinOneUlp ==
    pc = "done" =>
        LET k == SatisfiedConditions
            exact == ClampedTenths[k + 1]
        IN  /\ k \in {0, 1, 2, 6} => confidence = exact
            /\ k \in {3, 4, 5} => FloatDiff(exact, confidence) = 4
            /\ FloatLE(Float_0_5, confidence) /\ FloatLE(confidence, Float_1_0)
            /\ k = 6 => confidence = Float_1_0
            /\ \A key \in ConfidenceKeys :
                   ~Has(supplier_data, key) =>
                       FloatLE(confidence,
                               _calculate_confidence(FillField(supplier_data, key),
                                                     message_analysis))

\* all five fields filled and an intent: the sum passes 1.0 and is clamped
C8_Witness ==
    /\ pc = "done"
    /\ SatisfiedConditions = 6
    /\ confidence = Float_1_0

\* the tool was called without supplier data: key missing or profile empty
NoSupplierData ==
    \/ "supplier_data" \notin DOMAIN session_context
    \/ session_context.supplier_data = <<>>

\* the provider was called and raised
GenerationFailed == "_call_llm" \in called /\ llm_outcome.kind = "raise"

(***************************************************************************)
(* C9: called without supplier data (key missing or profile empty) the     *)
(* tool returns strategy no_data, confidence 0.0 and the no-data text,     *)
(* without classifying, selecting a strategy or calling the generator; a   *)
(* result produced with supplier data, in particular after a generation    *)
(* failure, never has strategy no_data.                                    *)
(***************************************************************************)
C9_NoDataDistinct ==
    pc = "done" =>
        /\ result.kind = "return"
        /\ NoSupplierData =>
               /\ result.value = [ response |-> NoDataResponse,
                                   confidence |-> Float_0_0,
                                   strategy |-> "no_data" ]
               /\ called = {}
        /\ ~NoSupplierData => result.value.strategy # "no_data"
        /\ GenerationFailed => result.value.strategy # "no_data"

\* a call with an empty profile answered no_data
C9_Witness ==
    /\ pc = "done"
    /\ session_context = [supplier_data |-> <<>>]
    /\ result.value.strategy = "no_data"
    /\ called = {}

(***************************************************************************)
(* C10: when the provider call fails while the tool answers a message with *)
(* supplier data loaded, the tool does not raise and the response of its   *)
(* result is "LLM call didn't work: " followed by the text of the          *)
(* exception, not a reply of the provider nor a canned text.               *)
(***************************************************************************)
C10_TaggedFailure ==
    (pc = "done" /\ ~NoSupplierData /\ GenerationFailed) =>
        /\ result.kind = "return"
        /\ StartsWith(result.value.response, LLMFailurePrefix)
        /\ result.value.response = LLMFailurePrefix \o llm_outcome.message

\* the provider timed out while a message was answered with the CSV profile
C10_Witness ==
    /\ pc = "done"
    /\ ~NoSupplierData
    /\ session_context.supplier_data = CsvProfile
    /\ llm_outcome.kind = "raise"
    /\ "_call_llm" \in called
    /\ StartsWith(result.value.response, LLMFailurePrefix)

(***************************************************************************)
(* Transcript analytics (summarize_negotiation_transcript.py).  A float    *)
(* that is the quotient of two ints is kept as the reduced fraction: two   *)
(* quotients of small ints are the same float exactly when the fractions   *)
(* are equal.                                                              *)
(***************************************************************************)
\* msg.get("role") == role
RoleIs(msg, role) == "role" \in DOMAIN msg /\ msg.role = role

\* msg.get("role", "unknown")
RoleOf(msg) == IF "role" \in DOMAIN msg THEN msg.role ELSE "unknown"

\* msg.get("message", "")
MessageOf(msg) == IF "message" \in DOMAIN msg THEN msg.message ELSE <<>>

\* [msg for msg in transcript_data if msg.get("role") == role]
EntriesOfRole(transcript_data, role) ==
    LET OfRole(msg) == RoleIs(msg, role)
    IN  SelectSeq(transcript_data, OfRole)

\* len(text.split()): the maximal runs of non-whitespace characters
WordCount(text) ==
    Cardinality({ i \in 1..Len(text) :
                    /\ text[i] \notin Whitespace
                    /\ (i = 1 \/ text[i - 1] \in Whitespace) })

\* sum(len(msg.get("message", "").split()) for msg in entries)
RECURSIVE SumWordCounts(_)
SumWordCounts(entries) ==
    IF Len(entries) = 0 THEN 0
    ELSE WordCount(MessageOf(Head(entries))) + SumWordCounts(Tail(entries))

RECURSIVE GCD(_, _)
GCD(a, b) == IF b = 0 THEN a ELSE GCD(b, a % b)

\* the int literal 0 of the `else 0` branches
PyInt(n) == [type |-> "int", num |-> n, den |-> 1]

\* n / d on two ints, d > 0
TrueDiv(n, d) == [type |-> "float", num |-> n \div GCD(n, d), den |-> d \div GCD(n, d)]

\* the summary with the supplier filter testing the buyer role
_generate_basic_summary_BuyerTwice(transcript_data) ==
    LET buyer_messages == EntriesOfRole(transcript_data, "buyer")
        supplier_messages == EntriesOfRole(transcript_data, "buyer")
        total_messages == Len(transcript_data)
        buyer_word_count == SumWordCounts(buyer_messages)
        supplier_word_count == SumWordCounts(supplier_messages)
    IN  [ total_messages |-> total_messages,
          buyer_messages |-> Len(buyer_messages),
          supplier_messages |-> Len(supplier_messages),
          buyer_word_count |-> buyer_word_count,
          supplier_word_count |-> supplier_word_count,
          average_message_length |->
              IF total_messages > 0
              THEN TrueDiv(buyer_word_count + supplier_word_count, total_messages)
              ELSE PyInt(0),
          conversation_balance |->
              IF Len(supplier_messages) > 0
              THEN TrueDiv(Len(buyer_messages), Len(supplier_messages))
              ELSE PyInt(0) ]

_generate_basic_summary(transcript_data) ==
    LET buyer_messages == EntriesOfRole(transcript_data, "buyer")
        supplier_messages == EntriesOfRole(transcript_data, "supplier")
        total_messages == Len(transcript_data)
        buyer_word_count == SumWordCounts(buyer_messages)
        supplier_word_count == SumWordCounts(supplier_messages)
    IN  [ total_messages |-> total_messages,
          buyer_messages |-> Len(buyer_messages),
          supplier_messages |-> Len(supplier_messages),
          buyer_word_count |-> buyer_word_count,
          supplier_word_count |-> supplier_word_count,
          average_message_length |->
              IF total_messages > 0
              THEN TrueDiv(buyer_word_count + supplier_word_count, total_messages)
              ELSE PyInt(0),
          conversation_balance |->
              IF Len(supplier_messages) > 0
              THEN TrueDiv(Len(buyer_messages), Len(supplier_messages))
              ELSE PyInt(0) ]

\* separator.join(strings)
RECURSIVE Join(_, _)
Join(separator, strings) ==
    IF Len(strings) = 0 THEN <<>>
    ELSE IF Len(strings) = 1 THEN strings[1]
    ELSE strings[1] \o separator \o Join(separator, Tail(strings))

\* " ".join(msg.get("message", "").lower() for the entries of the role)
TextOfRole(transcript_data, role) ==
    LET entries == EntriesOfRole(transcript_data, role)
    IN  Join(<<" ">>, [i \in 1..Len(entries) |-> Lower(MessageOf(entries[i]))])

\* the idiom `if any(word in text for word in words): strategies.append(label)`
AppendIfAny(words, text, label) == IF AnyIn(words, text) THEN <<label>> ELSE <<>>

competition_leverage_words ==
    << <<"c", "o", "m", "p", "e", "t", "i", "t", "o", "r">>,
       <<"a", "l", "t", "e", "r", "n", "a", "t", "i", "v", "e">>,
       <<"o", "t", "h", "e", "r", " ", "s", "u", "p", "p", "l", "i", "e", "r">> >>

volume_leverage_words ==
    << <<"v", "o", "l", "u", "m", "e">>,
       <<"b", "u", "l", "k">>,
       <<"l", "a", "r", "g", "e", " ", "o", "r", "d", "e", "r">> >>

relationship_building_words ==
    << <<"l", "o", "n", "g", " ", "t", "e", "r", "m">>,
       <<"p", "a", "r", "t", "n", "e", "r", "s", "h", "i", "p">>,
       <<"r", "e", "l", "a", "t", "i", "o", "n", "s", "h", "i", "p">> >>

market_pressure_words ==
    << <<"m", "a", "r", "k", "e", "t">>,
       <<"i", "n", "d", "u", "s", "t", "r", "y">>,
       <<"t", "r", "e", "n", "d">> >>

urgency_pressure_words ==
    << <<"u", "r", "g", "e", "n", "t">>,
       <<"a", "s", "a", "p">>,
       <<"i", "m", "m", "e", "d", "i", "a", "t", "e", "l", "y">> >>

price_focus_words ==
    << <<"b", "u", "d", "g", "e", "t">>,
       <<"c", "o", "s", "t">>,
       <<"p", "r", "i", "c", "e">>,
       <<"d", "i", "s", "c", "o", "u", "n", "t">> >>


_identify_buyer_strategies(transcript_data) ==
    LET all_buyer_text == TextOfRole(transcript_data, "buyer")
    IN  AppendIfAny(competition_leverage_words, all_buyer_text, "competition_leverage")
        \o AppendIfAny(volume_leverage_words, all_buyer_text, "volume_leverage")
        \o AppendIfAny(relationship_building_words, all_buyer_text, "relationship_building")
        \o AppendIfAny(market_pressure_words, all_buyer_text, "market_pressure")
        \o AppendIfAny(urgency_pressure_words, all_buyer_text, "urgency_pressure")
        \o AppendIfAny(price_focus_words, all_buyer_text, "price_focus")

value_proposition_words ==
    << <<"q", "u", "a", "l", "i", "t", "y">>,
       <<"s", "t", "a", "n", "d", "a", "r", "d">>,
       <<"v", "a", "l", "u", "e">> >>

cost_justification_words ==
    << <<"c", "o", "s", "t">>,
       <<"p", "r", "i", "c", "e">>,
       <<"m", "a", "r", "k", "e", "t">> >>

relationship_focus_words ==
    << <<"r", "e", "l", "a", "t", "i", "o", "n", "s", "h", "i", "p">>,
       <<"p", "a", "r", "t", "n", "e", "r", "s", "h", "i", "p">>,
       <<"l", "o", "n", "g", " ", "t", "e", "r", "m">> >>

resistance_words ==
    << <<"d", "i", "f", "f", "i", "c", "u", "l", "t">>,
       <<"c", "h", "a", "l", "l", "e", "n", "g", "e">>,
       <<"c", "o", "n", "c", "e", "r", "n">> >>

alternative_offering_words ==
    << <<"a", "l", "t", "e", "r", "n", "a", "t", "i", "v", "e">>,
       <<"o", "p", "t", "i", "o", "n">>,
       <<"s", "o", "l", "u", "t", "i", "o", "n">> >>


_identify_supplier_strategies(transcript_data) ==
    LET all_supplier_text == TextOfRole(transcript_data, "supplier")
    IN  AppendIfAny(value_proposition_words, all_supplier_text, "value_proposition")
        \o AppendIfAny(cost_justification_words, all_supplier_text, "cost_justification")
        \o AppendIfAny(relationship_focus_words, all_supplier_text, "relationship_focus")
        \o AppendIfAny(resistance_words, all_supplier_text, "resistance")
        \o AppendIfAny(alternative_offering_words, all_supplier_text, "alternative_offering")

\* abs(n)
Abs(n) == IF n < 0 THEN 0 - n ELSE n

\* set(list)
Range(list) == { list[i] : i \in 1..Len(list) }

\* the assessment with `< 2` for `<= 2`
_assess_strategy_effectiveness_StrictlyLess(buyer_strategies, supplier_strategies) ==
    [ buyer_strategy_count |-> Len(buyer_strategies),
      supplier_strategy_count |-> Len(supplier_strategies),
      strategy_diversity |-> Cardinality(Range(buyer_strategies \o supplier_strategies)),
      balanced_negotiation |->
          (Abs(Len(buyer_strategies) - Len(supplier_strategies)) < 2) ]

_assess_strategy_effectiveness(buyer_strategies, supplier_strategies) ==
    [ buyer_strategy_count |-> Len(buyer_strategies),
      supplier_strategy_count |-> Len(supplier_strategies),
      strategy_diversity |-> Cardinality(Range(buyer_strategies \o supplier_strategies)),
      balanced_negotiation |->
          (Abs(Len(buyer_strategies) - Len(supplier_strategies)) <= 2) ]

_analyze_strategies(transcript_data) ==
    LET buyer_strategies == _identify_buyer_strategies(transcript_data)
        supplier_strategies == _identify_supplier_strategies(transcript_data)
    IN  [ buyer_strategies |-> buyer_strategies,
          supplier_strategies |-> supplier_strategies,
          strategy_effectiveness |->
              _assess_strategy_effectiveness(buyer_strategies, supplier_strategies) ]

\* max(a, b)
Max(a, b) == IF a >= b THEN a ELSE b

\* list[start:stop] for 0 <= start, 0 <= stop
Slice(list, start, stop) ==
    SubSeq(list, start + 1, IF stop < Len(list) THEN stop ELSE Len(list))

\* list[start:]
SliceFrom(list, start) == SubSeq(list, start + 1, Len(list))

\* the phases with the closing slice bounded like the other three
_identify_conversation_phases_EqualSlices(transcript_data) ==
    LET total_messages == Len(transcript_data)
        phase_size == Max(1, total_messages \div 4)
    IN  IF total_messages = 0 THEN <<>>
        ELSE << [ name |-> "opening",
                  messages |-> Slice(transcript_data, 0, phase_size) ],
                [ name |-> "exploration",
                  messages |-> Slice(transcript_data, phase_size, phase_size * 2) ],
                [ name |-> "negotiation",
                  messages |-> Slice(transcript_data, phase_size * 2, phase_size * 3) ],
                [ name |-> "closing",
                  messages |-> Slice(transcript_data, phase_size * 3, phase_size * 4) ] >>

\* the phases with phase_size = total_messages // 4, without max(1, ...)
_identify_conversation_phases_FloorSize(transcript_data) ==
    LET total_messages == Len(transcript_data)
        phase_size == total_messages \div 4
    IN  IF total_messages = 0 THEN <<>>
        ELSE << [ name |-> "opening",
                  messages |-> Slice(transcript_data, 0, phase_size) ],
                [ name |-> "exploration",
                  messages |-> Slice(transcript_data, phase_size, phase_size * 2) ],
                [ name |-> "negotiation",
                  messages |-> Slice(transcript_data, phase_size * 2, phase_size * 3) ],
                [ name |-> "closing",
                  messages |-> SliceFrom(transcript_data, phase_size * 3) ] >>

_identify_conversation_phases(transcript_data) ==
    LET total_messages == Len(transcript_data)
        phase_size == Max(1, total_messages \div 4)
    IN  IF total_messages = 0 THEN <<>>
        ELSE << [ name |-> "opening",
                  messages |-> Slice(transcript_data, 0, phase_size) ],
                [ name |-> "exploration",
                  messages |-> Slice(transcript_data, phase_size, phase_size * 2) ],
                [ name |-> "negotiation",
                  messages |-> Slice(transcript_data, phase_size * 2, phase_size * 3) ],
                [ name |-> "closing",
                  messages |-> SliceFrom(transcript_data, phase_size * 3) ] >>

\* sum(pattern["length"] for pattern in message_patterns)
RECURSIVE SumLengths(_)
SumLengths(message_patterns) ==
    IF Len(message_patterns) = 0 THEN 0
    ELSE Head(message_patterns).length + SumLengths(Tail(message_patterns))

_analyze_conversation_flow(transcript_data) ==
    LET message_patterns ==
            [ i \in 1..Len(transcript_data) |->
                [ position |-> i - 1,
                  role |-> RoleOf(transcript_data[i]),
                  length |-> WordCount(MessageOf(transcript_data[i])) ] ]
        total_length == SumLengths(message_patterns)
    IN  [ message_patterns |-> message_patterns,
          average_message_length |->
              IF Len(message_patterns) > 0
              THEN TrueDiv(total_length, Len(message_patterns))
              ELSE PyInt(0),
          conversation_phases |-> _identify_conversation_phases(transcript_data),
          conversation_length |-> Len(transcript_data) ]

\* every entry has a role: transcript_data[i]["role"] does not raise
_calculate_key_metrics(transcript_data) ==
    LET buyer_messages == EntriesOfRole(transcript_data, "buyer")
        supplier_messages == EntriesOfRole(transcript_data, "supplier")
        response_times ==
            Cardinality({ i \in 2..Len(transcript_data) :
                            transcript_data[i].role # transcript_data[i - 1].role })
    IN  [ total_duration |-> Len(transcript_data),
          average_response_time |->
              IF response_times > 0
              THEN TrueDiv(response_times, response_times) ELSE PyInt(0),
          buyer_participation |->
              IF Len(transcript_data) > 0
              THEN TrueDiv(Len(buyer_messages), Len(transcript_data)) ELSE PyInt(0),
          supplier_participation |->
              IF Len(transcript_data) > 0
              THEN TrueDiv(Len(supplier_messages), Len(transcript_data)) ELSE PyInt(0),
          conversation_turn_count |-> Len(transcript_data) ]

EngageMore == <<"B", "u", "y", "e", "r", " ", "s", "h", "o", "u", "l", "d", " ", "e", "n", "g", "a", "g", "e", " ", "m", "o", "r", "e", " ", "a", "c", "t", "i", "v", "e", "l", "y", " ", "i", "n", " ", "t", "h", "e", " ", "c", "o", "n", "v", "e", "r", "s", "a", "t", "i", "o", "n">>

TakeInitiative == <<"B", "u", "y", "e", "r", " ", "s", "h", "o", "u", "l", "d", " ", "t", "a", "k", "e", " ", "m", "o", "r", "e", " ", "i", "n", "i", "t", "i", "a", "t", "i", "v", "e", " ", "i", "n", " ", "t", "h", "e", " ", "n", "e", "g", "o", "t", "i", "a", "t", "i", "o", "n">>

AskForDiscounts == <<"C", "o", "n", "s", "i", "d", "e", "r", " ", "a", "s", "k", "i", "n", "g", " ", "f", "o", "r", " ", "s", "p", "e", "c", "i", "f", "i", "c", " ", "d", "i", "s", "c", "o", "u", "n", "t", "s", " ", "o", "r", " ", "p", "r", "i", "c", "e", " ", "r", "e", "d", "u", "c", "t", "i", "o", "n", "s">>

UseLeverage == <<"C", "o", "n", "s", "i", "d", "e", "r", " ", "u", "s", "i", "n", "g", " ", "l", "e", "v", "e", "r", "a", "g", "e", " ", "p", "o", "i", "n", "t", "s", " ", "l", "i", "k", "e", " ", "v", "o", "l", "u", "m", "e", ",", " ", "c", "o", "m", "p", "e", "t", "i", "t", "i", "o", "n", ",", " ", "o", "r", " ", "l", "o", "n", "g", "-", "t", "e", "r", "m", " ", "r", "e", "l", "a", "t", "i", "o", "n", "s", "h", "i", "p">>

leverage_usage_words ==
    << <<"v", "o", "l", "u", "m", "e">>,
       <<"c", "o", "m", "p", "e", "t", "i", "t", "o", "r">>,
       <<"m", "a", "r", "k", "e", "t">>,
       <<"l", "o", "n", "g", " ", "t", "e", "r", "m">> >>


_identify_improvement_areas(transcript_data) ==
    LET buyer_messages == EntriesOfRole(transcript_data, "buyer")
        supplier_messages == EntriesOfRole(transcript_data, "supplier")
        buyer_text == TextOfRole(transcript_data, "buyer")
    IN  (IF Len(buyer_messages) < 2 THEN <<EngageMore>> ELSE <<>>)
        \o (IF Len(supplier_messages) > Len(buyer_messages) * 2
            THEN <<TakeInitiative>> ELSE <<>>)
        \o (IF Contains(buyer_text, <<"p", "r", "i", "c", "e">>)
               /\ ~Contains(buyer_text, <<"d", "i", "s", "c", "o", "u", "n", "t">>)
            THEN <<AskForDiscounts>> ELSE <<>>)
        \o (IF ~AnyIn(leverage_usage_words, buyer_text) THEN <<UseLeverage>> ELSE <<>>)

PoliteTone == <<"M", "a", "i", "n", "t", "a", "i", "n", "e", "d", " ", "p", "r", "o", "f", "e", "s", "s", "i", "o", "n", "a", "l", " ", "a", "n", "d", " ", "p", "o", "l", "i", "t", "e", " ", "t", "o", "n", "e">>

VolumeLeverage == <<"U", "s", "e", "d", " ", "v", "o", "l", "u", "m", "e", " ", "a", "s", " ", "l", "e", "v", "e", "r", "a", "g", "e", " ", "e", "f", "f", "e", "c", "t", "i", "v", "e", "l", "y">>

RelationshipBuilding == <<"E", "m", "p", "h", "a", "s", "i", "z", "e", "d", " ", "r", "e", "l", "a", "t", "i", "o", "n", "s", "h", "i", "p", " ", "b", "u", "i", "l", "d", "i", "n", "g">>

ConsistentEngagement == <<"M", "a", "i", "n", "t", "a", "i", "n", "e", "d", " ", "c", "o", "n", "s", "i", "s", "t", "e", "n", "t", " ", "e", "n", "g", "a", "g", "e", "m", "e", "n", "t", " ", "t", "h", "r", "o", "u", "g", "h", "o", "u", "t", " ", "t", "h", "e", " ", "n", "e", "g", "o", "t", "i", "a", "t", "i", "o", "n">>

polite_tone_words ==
    << <<"p", "l", "e", "a", "s", "e">>,
       <<"t", "h", "a", "n", "k">>,
       <<"a", "p", "p", "r", "e", "c", "i", "a", "t", "e">> >>

volume_strength_words ==
    << <<"v", "o", "l", "u", "m", "e">>,
       <<"b", "u", "l", "k">>,
       <<"l", "a", "r", "g", "e", " ", "o", "r", "d", "e", "r">> >>

relationship_strength_words ==
    << <<"l", "o", "n", "g", " ", "t", "e", "r", "m">>,
       <<"p", "a", "r", "t", "n", "e", "r", "s", "h", "i", "p">>,
       <<"r", "e", "l", "a", "t", "i", "o", "n", "s", "h", "i", "p">> >>


_identify_strengths(transcript_data) ==
    LET buyer_messages == EntriesOfRole(transcript_data, "buyer")
        buyer_text == TextOfRole(transcript_data, "buyer")
    IN  AppendIfAny(polite_tone_words, buyer_text, PoliteTone)
        \o AppendIfAny(volume_strength_words, buyer_text, VolumeLeverage)
        \o AppendIfAny(relationship_strength_words, buyer_text, RelationshipBuilding)
        \o (IF Len(buyer_messages) >= 3 THEN <<ConsistentEngagement>> ELSE <<>>)

(***************************************************************************)
(* LLMService.analyze_conversation_sentiment (llm_service.py).  json.loads *)
(* is modelled on the texts the model feeds it: the two JSON documents     *)
(* below parse to the values below, "[]" parses to the empty list, every   *)
(* other text of the model is not JSON.                                    *)
(***************************************************************************)
SentimentJsonText == <<"{", "\"", "b", "u", "y", "e", "r", "_", "s", "e", "n", "t", "i", "m", "e", "n", "t", "\"", ":", " ", "\"", "p", "o", "s", "i", "t", "i", "v", "e", "\"", ",", " ", "\"", "s", "u", "p", "p", "l", "i", "e", "r", "_", "s", "e", "n", "t", "i", "m", "e", "n", "t", "\"", ":", " ", "\"", "n", "e", "u", "t", "r", "a", "l", "\"", ",", " ", "\"", "o", "v", "e", "r", "a", "l", "l", "_", "t", "o", "n", "e", "\"", ":", " ", "\"", "p", "r", "o", "f", "e", "s", "s", "i", "o", "n", "a", "l", "\"", ",", " ", "\"", "k", "e", "y", "_", "e", "m", "o", "t", "i", "o", "n", "s", "\"", ":", " ", "[", "\"", "h", "o", "p", "e", "f", "u", "l", "\"", "]", ",", " ", "\"", "c", "o", "n", "f", "i", "d", "e", "n", "c", "e", "\"", ":", " ", "0", ".", "8", "}">>

SentimentJson ==
    [ buyer_sentiment |-> "positive",
      supplier_sentiment |-> "neutral",
      overall_tone |-> "professional",
      key_emotions |-> <<"hopeful">>,
      confidence |-> TrueDiv(4, 5) ]

TranscriptJsonText == <<"[", "{", "\"", "r", "o", "l", "e", "\"", ":", " ", "\"", "b", "u", "y", "e", "r", "\"", ",", " ", "\"", "m", "e", "s", "s", "a", "g", "e", "\"", ":", " ", "\"", "h", "e", "l", "l", "o", "\"", "}", ",", " ", "{", "\"", "r", "o", "l", "e", "\"", ":", " ", "\"", "s", "u", "p", "p", "l", "i", "e", "r", "\"", ",", " ", "\"", "m", "e", "s", "s", "a", "g", "e", "\"", ":", " ", "\"", "L", "e", "t", " ", "m", "e", " ", "c", "h", "e", "c", "k", " ", "w", "i", "t", "h", " ", "m", "y", " ", "m", "a", "n", "a", "g", "e", "r", "\"", "}", "]">>

TranscriptJson ==
    << [ role |-> "buyer", message |-> <<"h", "e", "l", "l", "o">> ],
       [ role |-> "supplier", message |-> <<"L", "e", "t", " ", "m", "e", " ", "c", "h", "e", "c", "k", " ", "w", "i", "t", "h", " ", "m", "y", " ", "m", "a", "n", "a", "g", "e", "r">> ] >>

ModeratedJsonText == <<"[", "{", "\"", "r", "o", "l", "e", "\"", ":", " ", "\"", "m", "o", "d", "e", "r", "a", "t", "o", "r", "\"", ",", " ", "\"", "m", "e", "s", "s", "a", "g", "e", "\"", ":", " ", "\"", "W", "e", "l", "c", "o", "m", "e", "\"", "}", ",", " ", "{", "\"", "r", "o", "l", "e", "\"", ":", " ", "\"", "b", "u", "y", "e", "r", "\"", ",", " ", "\"", "m", "e", "s", "s", "a", "g", "e", "\"", ":", " ", "\"", "p", "l", "e", "a", "s", "e", " ", "l", "o", "w", "e", "r", " ", "t", "h", "e", " ", "p", "r", "i", "c", "e", "\"", "}", ",", " ", "{", "\"", "r", "o", "l", "e", "\"", ":", " ", "\"", "s", "u", "p", "p", "l", "i", "e", "r", "\"", ",", " ", "\"", "m", "e", "s", "s", "a", "g", "e", "\"", ":", " ", "\"", "O", "u", "r", " ", "q", "u", "a", "l", "i", "t", "y", " ", "h", "a", "s", " ", "a", " ", "c", "o", "s", "t", "\"", "}", "]">>

ModeratedJson ==
    << [ role |-> "moderator", message |-> <<"W", "e", "l", "c", "o", "m", "e">> ],
       [ role |-> "buyer", message |-> <<"p", "l", "e", "a", "s", "e", " ", "l", "o", "w", "e", "r", " ", "t", "h", "e", " ", "p", "r", "i", "c", "e">> ],
       [ role |-> "supplier", message |-> <<"O", "u", "r", " ", "q", "u", "a", "l", "i", "t", "y", " ", "h", "a", "s", " ", "a", " ", "c", "o", "s", "t">> ] >>

JSONDecodeErrorMessage == <<"E", "x", "p", "e", "c", "t", "i", "n", "g", " ", "v", "a", "l", "u", "e", ":", " ", "l", "i", "n", "e", " ", "1", " ", "c", "o", "l", "u", "m", "n", " ", "1", " ", "(", "c", "h", "a", "r", " ", "0", ")">>

\* json.loads(text)
json_loads(text) ==
    CASE text = SentimentJsonText -> Return(SentimentJson)
      [] text = TranscriptJsonText -> Return(TranscriptJson)
      [] text = ModeratedJsonText -> Return(ModeratedJson)
      [] text = <<"[", "]">> -> Return(<<>>)
      [] OTHER -> Raise("JSONDecodeError", JSONDecodeErrorMessage)

\* the conversation is read by the provider only: kept as the list of
\* (role, content) pairs, not rendered to text
_format_conversation_for_analysis(messages) ==
    [ i \in 1..Len(messages) |->
        [ role |-> RoleOf(messages[i]), content |-> MessageOf(messages[i]) ] ]

ErrorSentiment == [ score |-> 0, label |-> "error", confidence |-> 0 ]

ParseFailure == <<"F", "a", "i", "l", "e", "d", " ", "t", "o", " ", "p", "a", "r", "s", "e", " ", "L", "L", "M", " ", "r", "e", "s", "p", "o", "n", "s", "e">>

\* the dict of lines 102-109 and 113-120
SentimentError(error) ==
    [ buyer_sentiment |-> ErrorSentiment,
      supplier_sentiment |-> ErrorSentiment,
      overall_tone |-> "error",
      key_emotions |-> <<>>,
      confidence |-> 0,
      error |-> error ]

\* the whole body is inside try/except Exception: it always returns a dict
analyze_conversation_sentiment(messages, api) ==
    LET prompt == [ conversation |-> _format_conversation_for_analysis(messages) ]
        response == _call_llm(prompt, api)
        parsed == json_loads(response.value)
    IN  IF response.kind = "raise"
        THEN Return(SentimentError(LLMFailurePrefix \o response.message))
        ELSE IF parsed.kind = "raise"
        THEN Return(SentimentError(ParseFailure))
        ELSE parsed

\* the dict of lines 142-147 of summarize_negotiation_transcript.py
SentimentFallback(error) ==
    [ buyer_sentiment |-> ErrorSentiment,
      supplier_sentiment |-> ErrorSentiment,
      overall_sentiment |-> ErrorSentiment,
      error |-> error ]

_analyze_transcript(transcript_data, api) ==
    LET sentiment == analyze_conversation_sentiment(transcript_data, api)
    IN  [ summary |-> _generate_basic_summary(transcript_data),
          sentiment_analysis |->
              IF sentiment.kind = "raise"
              THEN SentimentFallback(LLMFailurePrefix \o sentiment.message)
              ELSE sentiment.value,
          strategy_analysis |-> _analyze_strategies(transcript_data),
          conversation_flow |-> _analyze_conversation_flow(transcript_data),
          key_metrics |-> _calculate_key_metrics(transcript_data),
          improvement_areas |-> _identify_improvement_areas(transcript_data),
          strengths |-> _identify_strengths(transcript_data),
          timestamp |-> Timestamp ]

(***************************************************************************)
(* summarize_negotiation_transcript_tool and the transcript file.  The     *)
(* file at transcript_path does not exist, exists and cannot be opened, or *)
(* holds a text.                                                           *)
(***************************************************************************)
\* text.split(separator) for a one-character separator
RECURSIVE SplitOn(_, _)
SplitOn(text, separator) ==
    IF \E i \in 1..Len(text) : text[i] = separator
    THEN LET first == CHOOSE i \in 1..Len(text) :
                          /\ text[i] = separator
                          /\ \A j \in 1..(i - 1) : text[j] # separator
         IN  <<SubSeq(text, 1, first - 1)>>
             \o SplitOn(SubSeq(text, first + 1, Len(text)), separator)
    ELSE <<text>>

\* line.split(':', 1)[1].strip(), for a line that holds a colon
AfterColon(line) ==
    LET first == CHOOSE i \in 1..Len(line) :
                     /\ line[i] = ":"
                     /\ \A j \in 1..(i - 1) : line[j] # ":"
    IN  Strip(SubSeq(line, first + 1, Len(line)))

buyer_prefixes ==
    << <<"b", "u", "y", "e", "r", ":">>,
       <<"u", "s", "e", "r", ":">>,
       <<"c", "u", "s", "t", "o", "m", "e", "r", ":">> >>

supplier_prefixes ==
    << <<"s", "u", "p", "p", "l", "i", "e", "r", ":">>,
       <<"s", "e", "l", "l", "e", "r", ":">>,
       <<"v", "e", "n", "d", "o", "r", ":">> >>


\* text.startswith((prefix, ...))
StartsWithAny(text, prefixes) ==
    \E k \in 1..Len(prefixes) : StartsWith(text, prefixes[k])

\* the idiom `if current_role and current_message: transcript.append(...)`;
\* current_role None is ""
Flush(state) ==
    IF state.current_role # "" /\ Len(state.current_message) > 0
    THEN Append(state.transcript,
                [ role |-> state.current_role,
                  message |-> Join(<<" ">>, state.current_message) ])
    ELSE state.transcript

\* one iteration of the loop over the lines
ParseLine(state, raw_line) ==
    LET line == Strip(raw_line)
    IN  IF Len(line) = 0 THEN state
        ELSE IF StartsWithAny(Lower(line), buyer_prefixes)
        THEN [ transcript |-> Flush(state),
               current_role |-> "buyer",
               current_message |-> <<AfterColon(line)>> ]
        ELSE IF StartsWithAny(Lower(line), supplier_prefixes)
        THEN [ transcript |-> Flush(state),
               current_role |-> "supplier",
               current_message |-> <<AfterColon(line)>> ]
        ELSE IF Len(state.current_message) > 0
        THEN [ state EXCEPT !.current_message = Append(@, line) ]
        ELSE [ state EXCEPT !.current_role = "buyer", !.current_message = <<line>> ]

RECURSIVE ParseLines(_, _)
ParseLines(state, lines) ==
    IF Len(lines) = 0 THEN state
    ELSE ParseLines(ParseLine(state, Head(lines)), Tail(lines))

_parse_text_transcript(content) ==
    Flush(ParseLines([ transcript |-> <<>>, current_role |-> "", current_message |-> <<>> ],
                     SplitOn(Strip(content), "\n")))

PermissionDenied == <<"[", "E", "r", "r", "n", "o", " ", "1", "3", "]", " ", "P", "e", "r", "m", "i", "s", "s", "i", "o", "n", " ", "d", "e", "n", "i", "e", "d", ":", " ", "'", "t", "r", "a", "n", "s", "c", "r", "i", "p", "t", ".", "t", "x", "t", "'">>

\* open() raises on a file that cannot be opened; the content is parsed as
\* JSON, and as plain text when it is not JSON
_read_transcript_file(file) ==
    LET parsed == json_loads(file.content)
    IN  IF ~file.readable THEN Raise("PermissionError", PermissionDenied)
        ELSE IF parsed.kind = "raise" THEN Return(_parse_text_transcript(file.content))
        ELSE parsed

NoTranscriptData == <<"N", "o", " ", "t", "r", "a", "n", "s", "c", "r", "i", "p", "t", " ", "d", "a", "t", "a", " ", "a", "v", "a", "i", "l", "a", "b", "l", "e">>

EmptyTranscriptData == <<"E", "m", "p", "t", "y", " ", "t", "r", "a", "n", "s", "c", "r", "i", "p", "t", " ", "d", "a", "t", "a">>

\* the tool without its two raise statements: an empty transcript is analysed
summarize_negotiation_transcript_tool_ZeroReport(path, negotiation_transcript, file, api) ==
    LET from_file == _read_transcript_file(file)
        transcript_data == IF Truthy(negotiation_transcript)
                           THEN negotiation_transcript
                           ELSE IF Truthy(path) /\ file.exists /\ from_file.kind = "return"
                           THEN from_file.value ELSE <<>>
    IN  [ outcome |-> Return(_analyze_transcript(transcript_data, api)),
          called |-> {"_analyze_transcript"} ]

\* the except clause logs and re-raises: the tool raises what its body raises
summarize_negotiation_transcript_tool(path, negotiation_transcript, file, api) ==
    LET from_file == _read_transcript_file(file)
        transcript_data == IF Truthy(negotiation_transcript)
                           THEN negotiation_transcript ELSE from_file.value
    IN  IF ~Truthy(negotiation_transcript) /\ ~(Truthy(path) /\ file.exists)
        THEN [ outcome |-> Raise("ValueError", NoTranscriptData), called |-> {} ]
        ELSE IF ~Truthy(negotiation_transcript) /\ from_file.kind = "raise"
        THEN [ outcome |-> from_file, called |-> {"_read_transcript_file"} ]
        ELSE IF ~Truthy(transcript_data)
        THEN [ outcome |-> Raise("ValueError", EmptyTranscriptData),
               called |-> {"_read_transcript_file"} ]
        ELSE [ outcome |-> Return(_analyze_transcript(transcript_data, api)),
               called |-> (IF Truthy(negotiation_transcript)
                           THEN {} ELSE {"_read_transcript_file"})
                          \cup {"_analyze_transcript"} ]

(***************************************************************************)
(* SpecSummarize: summarize_negotiation_transcript_tool called with an     *)
(* in-memory transcript, or with an empty one and a transcript path.       *)
(***************************************************************************)
MaxEntries == 3       \* entries in a generated in-memory transcript

AnalysisMessages ==
    { <<"h", "e", "l", "l", "o">>,
      <<"O", "u", "r", " ", "c", "o", "m", "p", "e", "t", "i", "t", "o", "r", " ", "o", "f", "f", "e", "r", "s", " ", "a", " ", "d", "i", "s", "c", "o", "u", "n", "t">> }

AnalysisEntries ==
    { [ role |-> role, message |-> message ] :
        role \in Roles, message \in AnalysisMessages }

\* the transcripts a caller holds in memory
AnalysisTranscripts ==
    UNION { [1..n -> AnalysisEntries] : n \in 0..MaxEntries }

TranscriptPath == <<"t", "r", "a", "n", "s", "c", "r", "i", "p", "t", ".", "t", "x", "t">>

\* transcript_path as the callers pass it: "" or a path
TranscriptPaths == { <<>>, TranscriptPath }

TextTranscript == <<"B", "u", "y", "e", "r", ":", " ", "h", "e", "l", "l", "o", "\n", "w", "e", " ", "n", "e", "e", "d", " ", "a", " ", "d", "i", "s", "c", "o", "u", "n", "t", "\n", "\n", "V", "e", "n", "d", "o", "r", ":", " ", "L", "e", "t", " ", "m", "e", " ", "c", "h", "e", "c", "k", "\n">>

\* what a transcript file holds: JSON lists, plain text, blank text
FileContents ==
    { TranscriptJsonText, ModeratedJsonText, <<"[", "]">>, TextTranscript,
      <<" ", "\n">> }

TranscriptFiles ==
    { [ exists |-> FALSE ], [ exists |-> TRUE, readable |-> FALSE ] }
    \cup { [ exists |-> TRUE, readable |-> TRUE, content |-> content ] :
             content \in FileContents }

ProsePrefix == <<"H", "e", "r", "e", " ", "i", "s", " ", "t", "h", "e", " ", "a", "n", "a", "l", "y", "s", "i", "s", ":", " ">>

\* the provider answers the sentiment prompt with JSON, with JSON after a
\* sentence of prose, or fails
SentimentOutcomes ==
    { Return(SentimentJsonText \o <<"\n">>),
      Return(ProsePrefix \o SentimentJsonText),
      Raise("APIConnectionError", <<"C", "o", "n", "n", "e", "c", "t", "i", "o", "n", " ", "e", "r", "r", "o", "r", ".">>) }

InitSummarize ==
    /\ pc = "call"
    /\ user_message = <<>>
    /\ supplier_data = <<>>
    /\ \/ /\ transcript \in AnalysisTranscripts
          /\ transcript_path = <<>>
          /\ transcript_file = [ exists |-> FALSE ]
       \/ /\ transcript = <<>>
          /\ transcript_path \in TranscriptPaths
          /\ transcript_file \in TranscriptFiles
    /\ message_analysis = NotRun
    /\ strategy = NotRun
    /\ confidence = NotRun
    /\ session_context = <<>>
    /\ llm_outcome \in SentimentOutcomes
    /\ result = NotRun
    /\ called = {}
    /\ frontend = <<>>
    /\ request = <<>>
    /\ handlers = <<>>
    /\ current_supplier = <<>>
    /\ documents = <<>>
    /\ snapshots = <<>>
    /\ buyer_inventory = <<>>
    /\ supplier_inventory = <<>>

SummarizeNegotiationTranscript ==
    /\ pc = "call"
    /\ LET call == summarize_negotiation_transcript_tool(
                       transcript_path, transcript, transcript_file, llm_outcome)
       IN  /\ result' = call.outcome
           /\ called' = call.called
    /\ pc' = "done"
    /\ UNCHANGED <<user_message, supplier_data, transcript, message_analysis,
                   strategy, confidence, session_context, llm_outcome>>
    /\ UNCHANGED session_vars

NextSummarize == SummarizeNegotiationTranscript

SpecSummarize == InitSummarize /\ [][NextSummarize]_vars

\* the summarize tool was called with an empty in-memory transcript
EmptyInMemory == ~Truthy(transcript)

\* there is no file to read: no path was given or nothing exists at the path
NoFileToRead == ~(Truthy(transcript_path) /\ transcript_file.exists)

\* the entries the summarize tool analyses, when it has any
TranscriptData ==
    IF Truthy(transcript) THEN transcript
    ELSE _read_transcript_file(transcript_file).value

\* the transcript file yields no entry: it cannot be opened or holds none
FileYieldsNothing ==
    /\ ~NoFileToRead
    /\ \/ _read_transcript_file(transcript_file).kind = "raise"
       \/ ~Truthy(_read_transcript_file(transcript_file).value)

SentimentFailed ==
    \/ llm_outcome.kind = "raise"
    \/ json_loads(Strip(llm_outcome.value)).kind = "raise"

SentinelKeys == {"buyer_sentiment", "supplier_sentiment", "overall_sentiment"}

OtherSections ==
    {"summary", "strategy_analysis", "conversation_flow", "key_metrics",
     "improvement_areas", "strengths"}

(***************************************************************************)
(* C12: when the sentiment call fails or its answer is not JSON, the       *)
(* report is returned, its sentiment_analysis holds the sentinel           *)
(* {score 0, label "error", confidence 0} under each of buyer_sentiment,   *)
(* supplier_sentiment and overall_sentiment, and every other section is    *)
(* what it is when the sentiment call succeeds.                            *)
(***************************************************************************)
C12_SentinelUnderEachKey ==
    (pc = "done" /\ "_analyze_transcript" \in called /\ SentimentFailed) =>
        /\ result.kind = "return"
        /\ \A key \in SentinelKeys :
              /\ key \in DOMAIN result.value.sentiment_analysis
              /\ result.value.sentiment_analysis[key] = ErrorSentiment
        /\ \A section \in OtherSections :
              result.value[section] =
                  _analyze_transcript(TranscriptData,
                                      Return(SentimentJsonText))[section]

\* number of entries of the analysed transcript with the role
EntriesWithRole(role) ==
    Cardinality({ i \in 1..Len(TranscriptData) : TranscriptData[i].role = role })

OnlyBuyerAndSupplier ==
    \A i \in 1..Len(TranscriptData) : TranscriptData[i].role \in Roles

(***************************************************************************)
(* C13: for a transcript of N entries whose roles are all buyer or         *)
(* supplier, the summary of the report has total_messages = N,             *)
(* buyer_messages and supplier_messages equal to the number of entries of  *)
(* each role, and buyer_messages + supplier_messages = N.                  *)
(***************************************************************************)
C13_SummaryCounts ==
    (pc = "done" /\ result.kind = "return" /\ OnlyBuyerAndSupplier) =>
        LET summary == result.value.summary
        IN  /\ summary.total_messages = Len(TranscriptData)
            /\ summary.buyer_messages = EntriesWithRole("buyer")
            /\ summary.supplier_messages = EntriesWithRole("supplier")
            /\ summary.buyer_messages + summary.supplier_messages = Len(TranscriptData)

C13_Witness ==
    /\ pc = "done"
    /\ result.kind = "return"
    /\ OnlyBuyerAndSupplier
    /\ Len(transcript) = 3
    /\ result.value.summary.total_messages = 3
    /\ result.value.summary.buyer_messages = 2
    /\ result.value.summary.supplier_messages = 1

(***************************************************************************)
(* SpecPhases: _identify_conversation_phases applied to transcripts of up  *)
(* to MaxPhaseEntries entries.                                             *)
(***************************************************************************)
MaxPhaseEntries == 8  \* entries in a transcript cut into phases

PhaseEntries ==
    { Entry("buyer", Hello), Entry("supplier", <<"o", "k">>) }

PhaseTranscripts ==
    UNION { [1..n -> PhaseEntries] : n \in 0..MaxPhaseEntries }

InitPhases ==
    /\ pc = "call"
    /\ user_message = <<>>
    /\ supplier_data = <<>>
    /\ transcript \in PhaseTranscripts
    /\ message_analysis = NotRun
    /\ strategy = NotRun
    /\ confidence = NotRun
    /\ ToolIdle
    /\ SessionIdle

IdentifyConversationPhases ==
    /\ pc = "call"
    /\ result' = _identify_conversation_phases(transcript)
    /\ pc' = "done"
    /\ UNCHANGED <<user_message, supplier_data, transcript, message_analysis,
                   strategy, confidence, session_context, llm_outcome, called>>
    /\ UNCHANGED session_vars

NextPhases == IdentifyConversationPhases

SpecPhases == InitPhases /\ [][NextPhases]_vars

PhaseNames == <<"opening", "exploration", "negotiation", "closing">>

\* number of entries of the k-th phase returned
PhaseLength(k) == Len(result[k].messages)

(***************************************************************************)
(* C14: for a non-empty transcript the segmentation returns four phases    *)
(* named opening, exploration, negotiation, closing in that order, and     *)
(* their message lists concatenated in order are the transcript: every     *)
(* entry is in exactly one phase, in the original order.  For 8 entries    *)
(* each phase has 2.                                                       *)
(***************************************************************************)
C14_FourPhasesCoverTranscript ==
    (pc = "done" /\ Len(transcript) > 0) =>
        /\ Len(result) = 4
        /\ \A k \in 1..4 : result[k].name = PhaseNames[k]
        /\ result[1].messages \o result[2].messages
             \o result[3].messages \o result[4].messages = transcript
        /\ Len(transcript) = 8 => \A k \in 1..4 : PhaseLength(k) = 2

C14_Witness ==
    /\ pc = "done"
    /\ Len(transcript) = 8
    /\ \A k \in 1..4 : PhaseLength(k) = 2
    /\ result[4].messages = SubSeq(transcript, 7, 8)

(***************************************************************************)
(* C15 as stated: for a non-empty transcript of N entries the opening,     *)
(* exploration and negotiation phases each hold floor(N/4) entries and the *)
(* closing phase holds the remaining N - 3*floor(N/4).                     *)
(***************************************************************************)
C15_FloorSizedPhases ==
    (pc = "done" /\ Len(transcript) > 0) =>
        /\ \A k \in 1..3 : PhaseLength(k) = Len(transcript) \div 4
        /\ PhaseLength(4) = Len(transcript) - 3 * (Len(transcript) \div 4)

(***************************************************************************)
(* C15 amended: for N >= 4 entries the first three phases each hold        *)
(* floor(N/4) entries and closing holds the remaining N - 3*floor(N/4);    *)
(* for N < 4 the phase size is 1: the first N phases hold one entry each   *)
(* and the phases after them, closing included, are empty.                 *)
(***************************************************************************)
C15_PhaseSizeAtLeastOne ==
    (pc = "done" /\ Len(transcript) > 0) =>
        IF Len(transcript) >= 4
        THEN /\ \A k \in 1..3 : PhaseLength(k) = Len(transcript) \div 4
             /\ PhaseLength(4) = Len(transcript) - 3 * (Len(transcript) \div 4)
        ELSE \A k \in 1..4 :
                 PhaseLength(k) = IF k <= Len(transcript) THEN 1 ELSE 0

C15_Witness ==
    /\ pc = "done"
    /\ Len(transcript) = 2
    /\ PhaseLength(1) = 1
    /\ PhaseLength(2) = 1
    /\ PhaseLength(3) = 0
    /\ PhaseLength(4) = 0

(***************************************************************************)
(* SpecInventory: _analyze_strategies applied to transcripts of up to      *)
(* MaxInventoryEntries entries of either role.                             *)
(***************************************************************************)
MaxInventoryEntries == 3  \* entries in a transcript scanned for strategies

InventoryMessages ==
    { <<"A", " ", "c", "o", "m", "p", "e", "t", "i", "t", "o", "r", " ", "o", "f", "f", "e", "r", "s", " ", "a", " ", "l", "o", "n", "g", " ", "t", "e", "r", "m", " ", "p", "a", "r", "t", "n", "e", "r", "s", "h", "i", "p">>,
      <<"w", "e", " ", "p", "l", "a", "n", " ", "l", "o", "n", "g">>,
      <<"t", "e", "r", "m", " ", "d", "e", "a", "l", "s">>,
      <<"O", "u", "r", " ", "q", "u", "a", "l", "i", "t", "y", " ", "h", "a", "s", " ", "a", " ", "c", "o", "s", "t">> }

InventoryTranscripts ==
    UNION { [1..n -> { Entry(role, message) :
                         role \in Roles, message \in InventoryMessages }] :
            n \in 0..MaxInventoryEntries }

InitInventory ==
    /\ pc = "call"
    /\ user_message = <<>>
    /\ supplier_data = <<>>
    /\ transcript \in InventoryTranscripts
    /\ message_analysis = NotRun
    /\ strategy = NotRun
    /\ confidence = NotRun
    /\ ToolIdle
    /\ SessionIdle

AnalyzeStrategies ==
    /\ pc = "call"
    /\ LET analysis == _analyze_strategies(transcript)
       IN  /\ result' = analysis
           /\ buyer_inventory' = analysis.buyer_strategies
           /\ supplier_inventory' = analysis.supplier_strategies
    /\ pc' = "done"
    /\ UNCHANGED <<user_message, supplier_data, transcript, message_analysis,
                   strategy, confidence, session_context, llm_outcome, called>>
    /\ UNCHANGED <<transcript_path, transcript_file, frontend, request, handlers,
                   current_supplier, documents, snapshots>>

NextInventory == AnalyzeStrategies

SpecInventory == InitInventory /\ [][NextInventory]_vars

BuyerGroups ==
    {"competition_leverage", "volume_leverage", "relationship_building",
     "market_pressure", "urgency_pressure", "price_focus"}

BuyerGroupWords(group) ==
    CASE group = "competition_leverage" -> competition_leverage_words
      [] group = "volume_leverage" -> volume_leverage_words
      [] group = "relationship_building" -> relationship_building_words
      [] group = "market_pressure" -> market_pressure_words
      [] group = "urgency_pressure" -> urgency_pressure_words
      [] group = "price_focus" -> price_focus_words

\* one of the words occurs in a message of the role, whatever the case
OccursInMessages(words, role) ==
    \E i \in 1..Len(transcript) :
        /\ transcript[i].role = role
        /\ AnyIn(words, Lower(transcript[i].message))

\* the transcript with its entries in the order given by the permutation
Reordered(order) == [i \in 1..Len(transcript) |-> transcript[order[i]]]

NoDuplicates(list) == Cardinality(Range(list)) = Len(list)

(***************************************************************************)
(* C16: the buyer inventory contains a group exactly when one of the       *)
(* group's keywords occurs in a buyer message of the transcript, each      *)
(* group at most once and whatever the order of the messages; supplier     *)
(* messages add nothing to the buyer inventory and buyer messages nothing  *)
(* to the supplier inventory; buyer text with a competition keyword and a  *)
(* relationship keyword yields competition_leverage and                    *)
(* relationship_building, and a diversity of at least 2.                   *)
(***************************************************************************)
C16_InventoryByKeywords ==
    pc = "done" =>
        /\ \A group \in BuyerGroups :
              (group \in Range(buyer_inventory))
                  <=> OccursInMessages(BuyerGroupWords(group), "buyer")
        /\ NoDuplicates(buyer_inventory)
        /\ NoDuplicates(supplier_inventory)
        /\ \A order \in Permutations(1..Len(transcript)) :
              _identify_buyer_strategies(Reordered(order)) = buyer_inventory
        /\ buyer_inventory =
              _identify_buyer_strategies(EntriesOfRole(transcript, "buyer"))
        /\ supplier_inventory =
              _identify_supplier_strategies(EntriesOfRole(transcript, "supplier"))
        /\ (/\ OccursInMessages(competition_leverage_words, "buyer")
            /\ OccursInMessages(relationship_building_words, "buyer"))
              => /\ "competition_leverage" \in Range(buyer_inventory)
                 /\ "relationship_building" \in Range(buyer_inventory)
                 /\ result.strategy_effectiveness.strategy_diversity >= 2

(***************************************************************************)
(* SpecEffectiveness: _assess_strategy_effectiveness applied to every pair *)
(* of inventories the two scans can return: the labels of a scan in source *)
(* order, each present or absent.                                          *)
(***************************************************************************)
BuyerLabels ==
    <<"competition_leverage", "volume_leverage", "relationship_building",
      "market_pressure", "urgency_pressure", "price_focus">>

SupplierLabels ==
    <<"value_proposition", "cost_justification", "relationship_focus",
      "resistance", "alternative_offering">>

\* the lists that keep some of the labels, in order
Inventories(labels) ==
    { SelectSeq(labels, LAMBDA label : label \in kept) : kept \in SUBSET Range(labels) }

InitEffectiveness ==
    /\ pc = "call"
    /\ user_message = <<>>
    /\ supplier_data = <<>>
    /\ transcript = <<>>
    /\ message_analysis = NotRun
    /\ strategy = NotRun
    /\ confidence = NotRun
    /\ ToolIdle
    /\ transcript_path = <<>>
    /\ transcript_file = <<>>
    /\ frontend = <<>>
    /\ request = <<>>
    /\ handlers = <<>>
    /\ current_supplier = <<>>
    /\ documents = <<>>
    /\ snapshots = <<>>
    /\ buyer_inventory \in Inventories(BuyerLabels)
    /\ supplier_inventory \in Inventories(SupplierLabels)

AssessStrategyEffectiveness ==
    /\ pc = "call"
    /\ result' = _assess_strategy_effectiveness(buyer_inventory, supplier_inventory)
    /\ pc' = "done"
    /\ UNCHANGED <<user_message, supplier_data, transcript, message_analysis,
                   strategy, confidence, session_context, llm_outcome, called>>
    /\ UNCHANGED session_vars

NextEffectiveness == AssessStrategyEffectiveness

SpecEffectiveness == InitEffectiveness /\ [][NextEffectiveness]_vars

(***************************************************************************)
(* C17: for every pair of inventories, strategy_diversity is the number of *)
(* distinct labels in the union of the two, and balanced_negotiation is    *)
(* true exactly when the sizes of the two differ by at most 2.             *)
(***************************************************************************)
C17_DiversityAndBalance ==
    pc = "done" =>
        /\ result.strategy_diversity =
              Cardinality(Range(buyer_inventory) \cup Range(supplier_inventory))
        /\ result.balanced_negotiation
              <=> (Len(buyer_inventory) - Len(supplier_inventory) \in (0 - 2)..2)

C17_Witness ==
    /\ pc = "done"
    /\ Len(buyer_inventory) = 5
    /\ Len(supplier_inventory) = 3
    /\ result.strategy_diversity = 8
    /\ result.balanced_negotiation

(***************************************************************************)
(* The MCP host: NegotiationTrainerHost keeps one session context and one  *)
(* negotiation transcript, and call_tool dispatches each tools/call        *)
(* request to one of the four tools.                                       *)
(***************************************************************************)
\* d[key] = value on a dict
SetItem(d, key, value) ==
    [ k \in DOMAIN d \cup {key} |-> IF k = key THEN value ELSE d[k] ]

\* json.dumps(value, indent=2): the text is held as the value it encodes
json_dumps(value) == [ json |-> value ]

\* str(KeyError(key)): the repr of the key
KeyErrorMessage(key) ==
    CASE key = "file_path" -> <<"'", "f", "i", "l", "e", "_", "p", "a", "t", "h", "'">>
      [] key = "user_message" -> <<"'", "u", "s", "e", "r", "_", "m", "e", "s", "s", "a", "g", "e", "'">>
      [] key = "transcript_path" -> <<"'", "t", "r", "a", "n", "s", "c", "r", "i", "p", "t", "_", "p", "a", "t", "h", "'">>
      [] key = "report_data" -> <<"'", "r", "e", "p", "o", "r", "t", "_", "d", "a", "t", "a", "'">>

\* arguments[key]
GetItem(arguments, key) ==
    IF key \in DOMAIN arguments THEN Return(arguments[key])
    ELSE Raise("KeyError", KeyErrorMessage(key))

\* os.path.splitext(file_path)[1].lower()
Extension(file_path) ==
    LET separators == { i \in 1..Len(file_path) : file_path[i] = "/" }
        start == IF separators = {} THEN 1
                 ELSE (CHOOSE i \in separators : \A j \in separators : j <= i) + 1
        dots == { i \in start..Len(file_path) :
                    /\ file_path[i] = "."
                    /\ \E j \in start..(i - 1) : file_path[j] # "." }
    IN  IF dots = {} THEN <<>>
        ELSE Lower(SubSeq(file_path, CHOOSE i \in dots : \A j \in dots : j <= i,
                          Len(file_path)))

FileNotFoundPrefix == <<"F", "i", "l", "e", " ", "n", "o", "t", " ", "f", "o", "u", "n", "d", ":", " ">>

UnsupportedFormatPrefix == <<"U", "n", "s", "u", "p", "p", "o", "r", "t", "e", "d", " ", "f", "i", "l", "e", " ", "f", "o", "r", "m", "a", "t", ":", " ">>

\* analyze_supplier_tool: the profile the analyser of the file's format
\* extracts is stored in the session context and returned; file.analysis is
\* the outcome of _analyze_csv_file, _analyze_pdf_file or _analyze_text_file
analyze_supplier_tool(file_path, context, file) ==
    IF ~file.exists
    THEN [ outcome |-> Raise("FileNotFoundError", FileNotFoundPrefix \o file_path),
           session_context |-> context ]
    ELSE IF Extension(file_path) \notin { <<".", "c", "s", "v">>, <<".", "p", "d", "f">>, <<".", "t", "x", "t">> }
    THEN [ outcome |-> Raise("ValueError",
                             UnsupportedFormatPrefix \o Extension(file_path)),
           session_context |-> context ]
    ELSE IF file.analysis.kind = "raise"
    THEN [ outcome |-> file.analysis, session_context |-> context ]
    ELSE [ outcome |-> file.analysis,
           session_context |->
               SetItem(SetItem(SetItem(context, "supplier_data", file.analysis.value),
                               "last_analyzed_file", file_path),
                       "analysis_timestamp", Timestamp) ]

FeedbackError == <<"E", "r", "r", "o", "r", " ", "g", "e", "n", "e", "r", "a", "t", "i", "n", "g", " ", "f", "e", "e", "d", "b", "a", "c", "k", ".", " ", "P", "l", "e", "a", "s", "e", " ", "t", "r", "y", " ", "a", "g", "a", "i", "n", ".">>

\* LLMService.generate_training_feedback: the provider's text, or the fixed
\* text on any failure
generate_training_feedback(analysis_data, conversation_history, api) ==
    LET prompt == [ conversation |->
                        _format_conversation_for_analysis(conversation_history),
                    analysis_data |-> analysis_data ]
        response == _call_llm(prompt, api)
    IN  IF response.kind = "raise" THEN FeedbackError ELSE response.value

NoAnalysisData == <<"N", "o", " ", "a", "n", "a", "l", "y", "s", "i", "s", " ", "d", "a", "t", "a", " ", "p", "r", "o", "v", "i", "d", "e", "d", ".", " ", "P", "l", "e", "a", "s", "e", " ", "a", "n", "a", "l", "y", "z", "e", " ", "a", " ", "n", "e", "g", "o", "t", "i", "a", "t", "i", "o", "n", " ", "t", "r", "a", "n", "s", "c", "r", "i", "p", "t", " ", "f", "i", "r", "s", "t", ".">>

\* generate_feedback_tool
generate_feedback_tool(report_data, api) ==
    IF ~Truthy(report_data) THEN NoAnalysisData
    ELSE generate_training_feedback(
             report_data,
             IF "conversation_history" \in DOMAIN report_data
             THEN report_data.conversation_history ELSE <<>>,
             api)

AnalyzeSupplierName == <<"a", "n", "a", "l", "y", "z", "e", "_", "s", "u", "p", "p", "l", "i", "e", "r">>

SimulateSupplierResponseName == <<"s", "i", "m", "u", "l", "a", "t", "e", "_", "s", "u", "p", "p", "l", "i", "e", "r", "_", "r", "e", "s", "p", "o", "n", "s", "e">>

SummarizeNegotiationTranscriptName == <<"s", "u", "m", "m", "a", "r", "i", "z", "e", "_", "n", "e", "g", "o", "t", "i", "a", "t", "i", "o", "n", "_", "t", "r", "a", "n", "s", "c", "r", "i", "p", "t">>

GenerateFeedbackName == <<"g", "e", "n", "e", "r", "a", "t", "e", "_", "f", "e", "e", "d", "b", "a", "c", "k">>

UnknownToolPrefix == <<"U", "n", "k", "n", "o", "w", "n", " ", "t", "o", "o", "l", ":", " ">>

ErrorPrefix == <<"E", "r", "r", "o", "r", ":", " ">>

\* CallToolResult(content=[TextContent(type="text", text=text)])
CallToolResult(text) == [ type |-> "text", text |-> text ]

\* the except branch of call_tool
ErrorResult(error) == CallToolResult(ErrorPrefix \o error.message)

\* the two appends of the simulate branch, supplier entry only
AppendExchange_ResponseOnly(negotiation_transcript, message, response) ==
    negotiation_transcript \o <<[ role |-> "supplier", message |-> response ]>>

\* the two appends of the simulate branch
AppendExchange(negotiation_transcript, message, response) ==
    negotiation_transcript \o <<[ role |-> "buyer", message |-> message ],
                                [ role |-> "supplier", message |-> response ]>>

\* call_tool: the content returned to the client, and the host's session
\* context and transcript after the call; tool is what the tool of the
\* branch did when it was called with the arguments (for analyze_supplier
\* with the session context as it left it)
call_tool(name, arguments, context, negotiation_transcript, tool) ==
    LET unchanged(content) == [ result |-> content,
                                session_context |-> context,
                                negotiation_transcript |-> negotiation_transcript ]
        missing(key) == unchanged(ErrorResult(GetItem(arguments, key)))
    IN  IF name = AnalyzeSupplierName
        THEN IF "file_path" \notin DOMAIN arguments THEN missing("file_path")
             ELSE [ result |-> IF tool.outcome.kind = "raise"
                               THEN ErrorResult(tool.outcome)
                               ELSE CallToolResult(json_dumps(tool.outcome.value)),
                    session_context |-> tool.session_context,
                    negotiation_transcript |-> negotiation_transcript ]
        ELSE IF name = SimulateSupplierResponseName
        THEN IF "user_message" \notin DOMAIN arguments THEN missing("user_message")
             ELSE IF tool.outcome.kind = "raise"
             THEN unchanged(ErrorResult(tool.outcome))
             ELSE [ result |-> CallToolResult(tool.outcome.value.response),
                    session_context |-> context,
                    negotiation_transcript |->
                        AppendExchange(negotiation_transcript, arguments.user_message,
                                       tool.outcome.value.response) ]
        ELSE IF name = SummarizeNegotiationTranscriptName
        THEN IF "transcript_path" \notin DOMAIN arguments
             THEN missing("transcript_path")
             ELSE IF tool.outcome.kind = "raise"
             THEN unchanged(ErrorResult(tool.outcome))
             ELSE unchanged(CallToolResult(json_dumps(tool.outcome.value)))
        ELSE IF name = GenerateFeedbackName
        THEN IF "report_data" \notin DOMAIN arguments THEN missing("report_data")
             ELSE unchanged(CallToolResult(tool.outcome.value))
        ELSE unchanged(ErrorResult(Raise("ValueError", UnknownToolPrefix \o name)))

(***************************************************************************)
(* SpecHost: the MCP host from its construction on, handling tools/call    *)
(* requests of every tool name, with and without the required argument.    *)
(***************************************************************************)
MaxHostExchanges == 2     \* simulate_supplier_response calls that extend the transcript

HostInitial ==
    /\ pc = "serving"
    /\ user_message = <<>>
    /\ supplier_data = <<>>
    /\ message_analysis = NotRun
    /\ strategy = NotRun
    /\ confidence = NotRun
    /\ llm_outcome = NotRun
    /\ called = {}
    /\ transcript_path = <<>>
    /\ transcript_file = <<>>
    /\ current_supplier = <<>>
    /\ documents = <<>>
    /\ snapshots = <<>>
    /\ buyer_inventory = <<>>
    /\ supplier_inventory = <<>>

\* NegotiationTrainerHost.__init__
InitHost ==
    /\ HostInitial
    /\ frontend = "host"
    /\ session_context = <<>>
    /\ transcript = <<>>
    /\ request = <<>>
    /\ handlers = <<>>
    /\ result = NotRun

MissingPath == <<"m", "i", "s", "s", "i", "n", "g", ".", "c", "s", "v">>

NotesPath == <<"n", "o", "t", "e", "s", ".", "m", "d">>

\* the files of the host's file system
FileAt(path) ==
    IF path = FilePath(CsvProfile) THEN [ exists |-> TRUE, analysis |-> Return(CsvProfile) ]
    ELSE IF path = NotesPath THEN [ exists |-> TRUE, analysis |-> Return(BareProfile) ]
    ELSE IF path = TranscriptPath
    THEN [ exists |-> TRUE, readable |-> TRUE, content |-> TextTranscript ]
    ELSE [ exists |-> FALSE ]

\* the arguments of a request: the dict with the key, or without it
ArgumentsWith(key, values) == { <<>> } \cup { SetItem(<<>>, key, v) : v \in values }

HostMessages ==
    { <<"h", "e", "l", "l", "o">>,
      <<"W", "e", " ", "n", "e", "e", "d", " ", "a", " ", "d", "i", "s", "c", "o", "u", "n", "t">> }

HostProviderOutcomes ==
    { Return(<<"8", "%", " ", "o", "f", "f", ".", "\n">>),
      Raise("APITimeoutError", <<"R", "e", "q", "u", "e", "s", "t", " ", "t", "i", "m", "e", "d", " ", "o", "u", "t", ".">>) }

FeedbackReports == { <<>>, [ conversation_history |-> <<Entry("buyer", Hello)>> ] }

UnknownToolName == <<"d", "e", "l", "e", "t", "e", "_", "t", "r", "a", "n", "s", "c", "r", "i", "p", "t">>

\* call_tool handles one request
CallTool(name, arguments, tool) ==
    \E call \in { call_tool(name, arguments, session_context, transcript, tool) } :
        /\ request' = [ name |-> name, arguments |-> arguments ]
        /\ result' = call.result
        /\ session_context' = call.session_context
        /\ transcript' = call.negotiation_transcript
        /\ UNCHANGED <<pc, user_message, supplier_data, message_analysis, strategy,
                       confidence, llm_outcome, called, transcript_path,
                       transcript_file, frontend, handlers, current_supplier,
                       documents, snapshots, buyer_inventory, supplier_inventory>>

\* a request that lacks the argument of its tool: no tool is called
NoToolCalled == <<>>

CallAnalyzeSupplier ==
    \E arguments \in ArgumentsWith("file_path", { FilePath(CsvProfile), NotesPath, MissingPath }) :
        CallTool(AnalyzeSupplierName, arguments,
                 IF "file_path" \notin DOMAIN arguments THEN NoToolCalled
                 ELSE analyze_supplier_tool(arguments.file_path, session_context,
                                            FileAt(arguments.file_path)))

CallSimulateSupplierResponse ==
    /\ Len(transcript) < 2 * MaxHostExchanges
    /\ \E arguments \in ArgumentsWith("user_message", HostMessages),
          api \in HostProviderOutcomes :
        CallTool(SimulateSupplierResponseName, arguments,
                 IF "user_message" \notin DOMAIN arguments THEN NoToolCalled
                 ELSE simulate_supplier_response_tool(arguments.user_message,
                                                      session_context, transcript, api))

CallSummarizeNegotiationTranscript ==
    \E arguments \in ArgumentsWith("transcript_path", TranscriptPaths),
       api \in HostProviderOutcomes :
        CallTool(SummarizeNegotiationTranscriptName, arguments,
                 IF "transcript_path" \notin DOMAIN arguments THEN NoToolCalled
                 ELSE summarize_negotiation_transcript_tool(
                          arguments.transcript_path, transcript,
                          FileAt(arguments.transcript_path), api))

CallGenerateFeedback ==
    \E arguments \in ArgumentsWith("report_data", FeedbackReports),
       api \in HostProviderOutcomes :
        CallTool(GenerateFeedbackName, arguments,
                 IF "report_data" \notin DOMAIN arguments THEN NoToolCalled
                 ELSE [ outcome |-> Return(generate_feedback_tool(arguments.report_data,
                                                                 api)) ])

CallUnknownTool ==
    CallTool(UnknownToolName, <<>>, NoToolCalled)

NextHost ==
    \/ CallAnalyzeSupplier
    \/ CallSimulateSupplierResponse
    \/ CallSummarizeNegotiationTranscript
    \/ CallGenerateFeedback
    \/ CallUnknownTool

SpecHost == InitHost /\ [][NextHost]_vars

IsPrefix(s, t) == Len(s) <= Len(t) /\ SubSeq(t, 1, Len(s)) = s

\* the request handled by the step names simulate_supplier_response and
\* carries a buyer message
SimulateRequested ==
    /\ request'.name = SimulateSupplierResponseName
    /\ "user_message" \in DOMAIN request'.arguments

(***************************************************************************)
(* C18: in the MCP host every tool call leaves the previous transcript as  *)
(* an unchanged prefix of the new one; only a simulate_supplier_response   *)
(* call extends it, and such a call extends it by exactly two entries: the *)
(* buyer message of the request, then the supplier response it returns.    *)
(***************************************************************************)
C18_AppendOnly ==
    [][ /\ IsPrefix(transcript, transcript')
        /\ transcript' # transcript => SimulateRequested
        /\ SimulateRequested =>
               transcript' = transcript \o
                   <<[ role |-> "buyer", message |-> request'.arguments.user_message ],
                     [ role |-> "supplier", message |-> result'.text ]>> ]_vars

\* a second exchange was appended behind the first, after an analysis
C18_Witness ==
    /\ frontend = "host"
    /\ Len(transcript) = 4
    /\ Truthy(session_context)
    /\ request.name = SimulateSupplierResponseName
    /\ transcript[3] = [ role |-> "buyer", message |-> request.arguments.user_message ]
    /\ transcript[4] = [ role |-> "supplier", message |-> result.text ]
    /\ transcript[2].message # NoDataResponse

(***************************************************************************)
(* The vector database (vector_db.py): the supplier collection holds the   *)
(* metadata of the stored documents, the conversation collection the       *)
(* stored conversations.  What the embedding model and the extraction by   *)
(* the LLM yield is an input: a file carries the profile extracted from it *)
(* and a query is answered by the matching documents in any order.         *)
(***************************************************************************)
\* d.update(other)
Update(d, other) ==
    [ k \in DOMAIN d \cup DOMAIN other |-> IF k \in DOMAIN other THEN other[k] ELSE d[k] ]

\* text.endswith(suffix)
EndsWith(text, suffix) ==
    /\ Len(suffix) <= Len(text)
    /\ SubSeq(text, Len(text) - Len(suffix) + 1, Len(text)) = suffix

\* json.loads of a text that json.dumps produced: an equal value, a new object
JsonValue(text) == text.json

\* _get_existing_document: the profile stored with the document id, or None
_get_existing_document(doc_id, docs) ==
    LET found == { m \in docs : m.document_id = doc_id }
    IN  IF found = {} THEN <<>>
        ELSE JsonValue((CHOOSE m \in found : TRUE).supplier_profile)

UnreadableDocument == <<"c", "a", "n", "n", "o", "t", " ", "r", "e", "a", "d", " ", "d", "o", "c", "u", "m", "e", "n", "t">>

\* _store_document_chunks: the metadata every chunk of the document carries
ChunkMetadata(doc_id, filename, supplier_profile) ==
    [ document_id |-> doc_id,
      filename |-> filename,
      supplier_id |-> IF "supplier_name" \in DOMAIN supplier_profile
                      THEN supplier_profile.supplier_name
                      ELSE <<"u", "n", "k", "n", "o", "w", "n">>,
      supplier_profile |-> json_dumps(supplier_profile) ]

\* process_and_store_document: the profile of the document, stored with its
\* chunks unless the document was processed before
process_and_store_document(file, docs) ==
    LET existing == _get_existing_document(file.document_id, docs)
    IN  IF Truthy(existing)
        THEN [ outcome |-> Return(existing), documents |-> docs ]
        ELSE IF ~file.readable
        THEN [ outcome |-> Raise("RuntimeError", UnreadableDocument),
               documents |-> docs ]
        ELSE [ outcome |-> Return(file.supplier_profile),
               documents |-> docs \cup { ChunkMetadata(file.document_id, file.filename,
                                                      file.supplier_profile) } ]

\* the context get_contextual_supplier_info compiles before it looks at the
\* results, and returns on an exception (the confidence is not modelled)
EmptyContext == [ relevant_info |-> <<>>, supplier_data |-> <<>> ]

\* get_contextual_supplier_info: results is the outcome of the query of the
\* supplier collection, the metadata of the chunks found, nearest first
get_contextual_supplier_info(results) ==
    IF results.kind = "raise" \/ ~Truthy(results.value) THEN EmptyContext
    ELSE [ relevant_info |->
               [ i \in 1..Len(results.value) |-> [ metadata |-> results.value[i] ] ],
           supplier_data |->
               IF "supplier_profile" \in DOMAIN results.value[1]
               THEN JsonValue(results.value[1].supplier_profile) ELSE <<>> ]

\* Store conversation in vector database periodically (every 4 exchanges)
SnapshotDue_Every4(negotiation_transcript) == Len(negotiation_transcript) % 4 = 0

\* Store conversation in vector database periodically
SnapshotDue(negotiation_transcript) == Len(negotiation_transcript) % 8 = 0

\* the metadata conversation_collection.add stores for a conversation
ConversationMetadata(conversation_data) ==
    [ supplier_id |-> conversation_data.supplier_id,
      timestamp |-> conversation_data.timestamp,
      outcome |-> conversation_data.outcome,
      strategies_used |-> json_dumps(IF "strategies" \in DOMAIN conversation_data
                                     THEN conversation_data.strategies ELSE <<>>),
      full_conversation |-> json_dumps(conversation_data.messages) ]

\* store_conversation: adds the conversation, or logs the error when the
\* database fails
store_conversation(conversation_data, conversations, database_available) ==
    IF database_available
    THEN conversations \cup { ConversationMetadata(conversation_data) }
    ELSE conversations

(***************************************************************************)
(* The session of the web server (SessionState, upload_file,               *)
(* chat_with_supplier, reset_session) and of the autonomous agent          *)
(* (process_new_file, generate_contextual_response,                        *)
(* store_conversation_turn, end_negotiation).  session_context holds under *)
(* supplier_data the object that is also current_supplier_data: what is    *)
(* done to one is done to the other.                                       *)
(***************************************************************************)
\* the session after upload_file or process_new_file stored the profile
SessionWithProfile(context, supplier_profile) ==
    [ current_supplier |-> supplier_profile.supplier_name,
      current_supplier_data |-> supplier_profile,
      session_context |-> SetItem(context, "supplier_data", supplier_profile),
      negotiation_transcript |-> <<>> ]

\* the session after the upload, with the conversation reset before the
\* document is processed
SessionAfterProcessing_ResetFirst(session, processed) ==
    IF processed.outcome.kind = "raise"
    THEN [ session EXCEPT !.negotiation_transcript = <<>> ]
    ELSE SessionWithProfile(session.session_context, processed.outcome.value)

\* the session after process_and_store_document was awaited in upload_file or
\* in process_new_file: the assignments follow the call, so that they are
\* skipped when it raises
SessionAfterProcessing(session, processed) ==
    IF processed.outcome.kind = "raise"
    THEN session
    ELSE SessionWithProfile(session.session_context, processed.outcome.value)

\* enhanced_context = session_context.copy() followed by
\* enhanced_context['supplier_data'].update(context["supplier_data"]): the
\* copy is shallow, so the update is done in place on the profile the
\* session holds (a chat is handled only once a profile is stored)
MergedProfile(context, retrieved) ==
    IF Truthy(retrieved.supplier_data)
    THEN Update(context.supplier_data, retrieved.supplier_data)
    ELSE context.supplier_data

\* the context handed to simulate_supplier_response_tool
EnhancedContext(context, retrieved) ==
    LET merged == SetItem(context, "supplier_data", MergedProfile(context, retrieved))
    IN  IF Truthy(retrieved.relevant_info)
        THEN SetItem(merged, "contextual_info", retrieved.relevant_info)
        ELSE merged

\* the extension by the buyer entry alone
ExtendTranscript_BuyerOnly(negotiation_transcript, message, response) ==
    negotiation_transcript \o <<[ role |-> "buyer", message |-> message ]>>

\* negotiation_transcript.extend([buyer entry, supplier entry])
ExtendTranscript(negotiation_transcript, message, response) ==
    negotiation_transcript \o <<[ role |-> "buyer", message |-> message ],
                                [ role |-> "supplier", message |-> response ]>>

\* the conversation_data of a periodic snapshot
ConversationData(negotiation_transcript, supplier, label) ==
    [ messages |-> negotiation_transcript,
      supplier_id |-> supplier,
      timestamp |-> Timestamp,
      strategies |-> <<label>>,
      outcome |-> "ongoing" ]

\* the exchange, with a failure of the store answered as an error
Exchange_StoreFailureSurfaces(message, session, conversations, retrieved, tool_result, database_available) ==
    LET extended == ExtendTranscript(session.negotiation_transcript, message,
                                     tool_result.response)
        profile == MergedProfile(session.session_context, retrieved)
    IN  [ response |-> IF SnapshotDue(extended) /\ ~database_available
                       THEN [ status_code |-> 500 ]
                       ELSE [ supplier_name |-> session.current_supplier,
                              response |-> tool_result.response,
                              strategy |-> tool_result.strategy ],
          session |-> [ current_supplier |-> session.current_supplier,
                        current_supplier_data |-> profile,
                        session_context |->
                            SetItem(session.session_context, "supplier_data", profile),
                        negotiation_transcript |-> extended ],
          conversations |->
              IF SnapshotDue(extended)
              THEN store_conversation(
                       ConversationData(extended, session.current_supplier,
                                        tool_result.strategy),
                       conversations, database_available)
              ELSE conversations,
          called |-> {"get_contextual_supplier_info", "simulate_supplier_response_tool"}
                     \cup (IF SnapshotDue(extended) THEN {"store_conversation"} ELSE {})
                     \cup (IF SnapshotDue(extended) /\ database_available
                           THEN {"conversation_collection.add"} ELSE {}) ]

\* the exchange of chat_with_supplier and of generate_contextual_response
\* with store_conversation_turn, once the context is retrieved and
\* simulate_supplier_response_tool returned tool_result for the enhanced
\* context: merge, the two entries and the periodic snapshot
Exchange(message, session, conversations, retrieved, tool_result, database_available) ==
    LET extended == ExtendTranscript(session.negotiation_transcript, message,
                                     tool_result.response)
        profile == MergedProfile(session.session_context, retrieved)
    IN  [ response |-> [ supplier_name |-> session.current_supplier,
                         response |-> tool_result.response,
                         strategy |-> tool_result.strategy ],
          session |-> [ current_supplier |-> session.current_supplier,
                        current_supplier_data |-> profile,
                        session_context |->
                            SetItem(session.session_context, "supplier_data", profile),
                        negotiation_transcript |-> extended ],
          conversations |->
              IF SnapshotDue(extended)
              THEN store_conversation(
                       ConversationData(extended, session.current_supplier,
                                        tool_result.strategy),
                       conversations, database_available)
              ELSE conversations,
          called |-> {"get_contextual_supplier_info", "simulate_supplier_response_tool"}
                     \cup (IF SnapshotDue(extended) THEN {"store_conversation"} ELSE {})
                     \cup (IF SnapshotDue(extended) /\ database_available
                           THEN {"conversation_collection.add"} ELSE {}) ]

(***************************************************************************)
(* SpecSession: a session of the web server or of the autonomous agent     *)
(* from its construction on: uploads, chat messages, resets and the end of *)
(* the negotiation, handled one after the other.                           *)
(***************************************************************************)
MaxSessionExchanges == 4     \* exchanges a transcript holds before the next upload or reset

\* two documents of one supplier, profiles as _validate_supplier_profile
\* leaves them
PriceListProfile ==
    [ supplier_name |-> <<"A", "c", "m", "e">>,
      products |-> << <<"V", "a", "l", "v", "e", "s">> >>,
      services |-> <<>>,
      prices |-> <<Num(100), Num(120)>>,
      delivery_times |-> <<Num(14)>>,
      quality_metrics |-> <<Num(9)>>,
      locations |-> <<>>,
      certifications |-> <<>>,
      payment_terms |-> <<>>,
      key_strengths |-> <<>>,
      competitive_advantages |-> <<>>,
      contact_info |-> <<>>,
      negotiation_style |-> "collaborative",
      price_sensitivity |-> "medium",
      volume_discounts |-> TRUE,
      rush_order_capability |-> FALSE ]

ContractProfile ==
    [ supplier_name |-> <<"A", "c", "m", "e">>,
      products |-> <<>>,
      services |-> <<>>,
      prices |-> <<Num(2000)>>,
      delivery_times |-> <<Num(30)>>,
      quality_metrics |-> <<>>,
      locations |-> <<>>,
      certifications |-> <<>>,
      payment_terms |-> <<>>,
      key_strengths |-> <<>>,
      competitive_advantages |-> <<>>,
      contact_info |-> <<>>,
      negotiation_style |-> "aggressive",
      price_sensitivity |-> "medium",
      volume_discounts |-> FALSE,
      rush_order_capability |-> FALSE ]

\* a document of another supplier
OtherSupplierProfile ==
    [ supplier_name |-> <<"B", "o", "r", "g">>,
      products |-> <<>>,
      services |-> <<>>,
      prices |-> <<Num(50)>>,
      delivery_times |-> <<>>,
      quality_metrics |-> <<Num(7)>>,
      locations |-> <<>>,
      certifications |-> <<>>,
      payment_terms |-> <<>>,
      key_strengths |-> <<>>,
      competitive_advantages |-> <<>>,
      contact_info |-> <<>>,
      negotiation_style |-> "flexible",
      price_sensitivity |-> "medium",
      volume_discounts |-> FALSE,
      rush_order_capability |-> FALSE ]

\* the files a user uploads; document_id stands for the hash of name, size
\* and modification time
UploadFiles ==
    { [ filename |-> <<"a", "c", "m", "e", "_", "p", "r", "i", "c", "e", "s", ".", "c", "s", "v">>, document_id |-> "d1",
        readable |-> TRUE, supplier_profile |-> PriceListProfile ],
      [ filename |-> <<"A", "c", "m", "e", "_", "C", "o", "n", "t", "r", "a", "c", "t", ".", "T", "X", "T">>, document_id |-> "d2",
        readable |-> TRUE, supplier_profile |-> ContractProfile ],
      [ filename |-> <<"b", "o", "r", "g", ".", "c", "s", "v">>, document_id |-> "d5",
        readable |-> TRUE, supplier_profile |-> OtherSupplierProfile ],
      [ filename |-> <<"s", "c", "a", "n", ".", "p", "d", "f">>, document_id |-> "d3",
        readable |-> FALSE ],
      [ filename |-> <<"n", "o", "t", "e", "s", ".", "m", "d">>, document_id |-> "d4",
        readable |-> FALSE ] }

SessionMessages == { <<"h", "e", "l", "l", "o">> }

SessionProviderOutcomes == { Return(<<"8", "%", " ", "o", "f", "f", ".", "\n">>) }

QueryFailed == <<"q", "u", "e", "r", "y", " ", "f", "a", "i", "l", "e", "d">>

\* supplier_collection.query(where={"supplier_id": supplier_id}): the query
\* fails, or returns the chunks of the supplier's documents in the order of
\* their distance to the message
QueryResults(docs, supplier_id) ==
    LET matching == { m \in docs : m.supplier_id = supplier_id }
    IN  { Raise("RuntimeError", QueryFailed) }
        \cup { Return(list) : list \in
                 { l \in [1..Cardinality(matching) -> matching] :
                     \A m \in matching : \E i \in DOMAIN l : l[i] = m } }

\* SessionState.__init__, AutonomousNegotiationAgent.__init__
InitSession ==
    /\ frontend \in {"web_server", "autonomous_agent"}
    /\ pc = IF frontend = "web_server" THEN "serving" ELSE "waiting"
    /\ current_supplier = <<>>
    /\ supplier_data = <<>>
    /\ transcript = <<>>
    /\ session_context = <<>>
    /\ documents = {}
    /\ snapshots = {}
    /\ request = <<>>
    /\ handlers = <<>>
    /\ result = NotRun
    /\ called = {}
    /\ user_message = <<>>
    /\ message_analysis = NotRun
    /\ strategy = NotRun
    /\ confidence = NotRun
    /\ llm_outcome = NotRun
    /\ transcript_path = <<>>
    /\ transcript_file = <<>>
    /\ buyer_inventory = <<>>
    /\ supplier_inventory = <<>>

SessionFrame ==
    UNCHANGED <<frontend, user_message, message_analysis, strategy, confidence,
                llm_outcome, transcript_path, transcript_file, buyer_inventory,
                supplier_inventory, handlers>>

\* the session object
Session ==
    [ current_supplier |-> current_supplier,
      current_supplier_data |-> supplier_data,
      session_context |-> session_context,
      negotiation_transcript |-> transcript ]

SetSession(session) ==
    /\ current_supplier' = session.current_supplier
    /\ supplier_data' = session.current_supplier_data
    /\ session_context' = session.session_context
    /\ transcript' = session.negotiation_transcript

\* the exchanges the message can lead to in the session as it is: the
\* supplier collection answers the query in one of its ways, then the
\* provider and the conversation collection in one of theirs
Exchanges(message) ==
    UNION { UNION { { Exchange(message, Session, snapshots, retrieved,
                               tool.outcome.value, database_available) :
                        database_available \in BOOLEAN } :
                    tool \in { simulate_supplier_response_tool(
                                   message, EnhancedContext(session_context, retrieved),
                                   transcript, api) :
                               api \in SessionProviderOutcomes } } :
            retrieved \in { get_contextual_supplier_info(results) :
                              results \in QueryResults(documents, current_supplier) } }

UnsupportedUpload == <<"4", "0", "0", ":", " ", "O", "n", "l", "y", " ", "P", "D", "F", ",", " ", "C", "S", "V", ",", " ", "a", "n", "d", " ", "T", "X", "T", " ", "f", "i", "l", "e", "s", " ", "a", "r", "e", " ", "s", "u", "p", "p", "o", "r", "t", "e", "d">>

NoSupplierLoaded == <<"4", "0", "0", ":", " ", "N", "o", " ", "s", "u", "p", "p", "l", "i", "e", "r", " ", "l", "o", "a", "d", "e", "d", ".", " ", "P", "l", "e", "a", "s", "e", " ", "u", "p", "l", "o", "a", "d", " ", "a", " ", "f", "i", "l", "e", " ", "f", "i", "r", "s", "t", ".">>

\* file.filename.lower().endswith(('.pdf', '.csv', '.txt'))
SupportedUpload(filename) ==
    \E suffix \in { <<".", "p", "d", "f">>, <<".", "c", "s", "v">>, <<".", "t", "x", "t">> } :
        EndsWith(Lower(filename), suffix)

\* upload_file
UploadFile ==
    /\ frontend = "web_server"
    /\ \E file \in UploadFiles :
        LET processed == process_and_store_document(file, documents)
        IN  /\ request' = [ kind |-> "upload", filename |-> file.filename ]
            /\ IF ~SupportedUpload(file.filename)
               THEN /\ result' = [ success |-> FALSE, error |-> UnsupportedUpload ]
                    /\ called' = {}
                    /\ UNCHANGED <<current_supplier, supplier_data, session_context,
                                   transcript, documents>>
               ELSE /\ result' = IF processed.outcome.kind = "raise"
                                  THEN [ success |-> FALSE,
                                         error |-> processed.outcome.message ]
                                  ELSE [ success |-> TRUE,
                                         supplier_name |->
                                             processed.outcome.value.supplier_name ]
                    /\ called' = {"process_and_store_document"}
                    /\ SetSession(SessionAfterProcessing(Session, processed))
                    /\ documents' = processed.documents
    /\ UNCHANGED <<pc, snapshots>>
    /\ SessionFrame

\* chat_with_supplier
ChatWithSupplier ==
    /\ frontend = "web_server"
    /\ Len(transcript) < 2 * MaxSessionExchanges
    /\ \E message \in SessionMessages :
        /\ request' = [ kind |-> "chat", message |-> message ]
        /\ IF ~Truthy(current_supplier)
           THEN /\ result' = [ status_code |-> 500, detail |-> NoSupplierLoaded ]
                /\ called' = {}
                /\ UNCHANGED <<current_supplier, supplier_data, session_context,
                               transcript, snapshots>>
           ELSE \E exchange \in Exchanges(message) :
                    /\ result' = exchange.response
                    /\ called' = exchange.called
                    /\ SetSession(exchange.session)
                    /\ snapshots' = exchange.conversations
    /\ UNCHANGED <<pc, documents>>
    /\ SessionFrame

\* reset_session
ResetSession ==
    /\ frontend = "web_server"
    /\ request' = [ kind |-> "reset" ]
    /\ result' = [ success |-> TRUE ]
    /\ called' = {}
    /\ SetSession([ current_supplier |-> <<>>, current_supplier_data |-> <<>>,
                    session_context |-> <<>>, negotiation_transcript |-> <<>> ])
    /\ UNCHANGED <<pc, documents, snapshots>>
    /\ SessionFrame

\* process_new_file, before the chat and from the chat's upload command
ProcessNewFile ==
    /\ frontend = "autonomous_agent"
    /\ pc \in {"waiting", "chatting"}
    /\ \E file \in UploadFiles :
        LET processed == process_and_store_document(file, documents)
        IN  /\ request' = [ kind |-> "upload", filename |-> file.filename ]
            /\ called' = {"process_and_store_document"}
            /\ result' = IF processed.outcome.kind = "raise"
                          THEN [ success |-> FALSE, error |-> processed.outcome.message ]
                          ELSE [ success |-> TRUE,
                                 supplier_name |-> processed.outcome.value.supplier_name ]
            /\ SetSession(SessionAfterProcessing(Session, processed))
            /\ documents' = processed.documents
            /\ pc' = IF processed.outcome.kind = "raise" THEN pc ELSE "chatting"
    /\ UNCHANGED snapshots
    /\ SessionFrame

\* generate_contextual_response and store_conversation_turn
GenerateContextualResponse ==
    /\ frontend = "autonomous_agent"
    /\ pc = "chatting"
    /\ Len(transcript) < 2 * MaxSessionExchanges
    /\ \E message \in SessionMessages :
        \E exchange \in Exchanges(message) :
            /\ request' = [ kind |-> "chat", message |-> message ]
            /\ result' = exchange.response
            /\ called' = exchange.called
            /\ SetSession(exchange.session)
            /\ snapshots' = exchange.conversations
    /\ UNCHANGED <<pc, documents>>
    /\ SessionFrame

\* end_negotiation: the final conversation is stored whatever its length
EndNegotiation ==
    /\ frontend = "autonomous_agent"
    /\ pc = "chatting"
    /\ request' = [ kind |-> "quit" ]
    /\ result' = NotRun
    /\ \E database_available \in BOOLEAN :
        IF Truthy(transcript)
        THEN /\ snapshots' = store_conversation(
                                 [ messages |-> transcript,
                                   supplier_id |-> current_supplier,
                                   timestamp |-> Timestamp,
                                   outcome |-> "completed" ],
                                 snapshots, database_available)
             /\ called' = {"store_conversation"}
                          \cup (IF database_available
                                THEN {"conversation_collection.add"} ELSE {})
        ELSE /\ snapshots' = snapshots
             /\ called' = {}
    /\ pc' = "ended"
    /\ UNCHANGED <<current_supplier, supplier_data, session_context, transcript,
                   documents>>
    /\ SessionFrame

NextSession ==
    \/ UploadFile
    \/ ChatWithSupplier
    \/ ResetSession
    \/ ProcessNewFile
    \/ GenerateContextualResponse
    \/ EndNegotiation

SpecSession == InitSession /\ [][NextSession]_vars

\* the step handled a chat message
ChatHandled == request'.kind = "chat"

(***************************************************************************)
(* C19: the session's stored supplier profile changes only when a document *)
(* is processed (or the session is reset): no chat request changes a field *)
(* of the stored profile, neither of current_supplier_data nor of the      *)
(* supplier_data of the session context, so nothing retrieved for a        *)
(* message is merged into it.                                              *)
(***************************************************************************)
C19_ProfileChangedOnlyByUpload ==
    [][ /\ ChatHandled =>
               /\ supplier_data' = supplier_data
               /\ SupplierDataOf(session_context') = SupplierDataOf(session_context)
        /\ supplier_data' # supplier_data => request'.kind \in {"upload", "reset"} ]_vars

\* the step appended an exchange to the transcript
ExchangeAppended == ChatHandled /\ transcript' # transcript

\* the snapshot of the transcript as it is after the step
SnapshotPersisted ==
    \E s \in snapshots' :
        /\ s.full_conversation = json_dumps(transcript')
        /\ s.supplier_id = current_supplier'
        /\ s.outcome = "ongoing"

StoreFailed ==
    /\ ChatHandled
    /\ "store_conversation" \in called'
    /\ "conversation_collection.add" \notin called'

(***************************************************************************)
(* C21: a failure of the conversation store never reaches the chat: the    *)
(* request whose snapshot the vector database fails to add is answered     *)
(* with the supplier response and strategy, and leaves the session, that   *)
(* the same request has when the snapshot is added; the transcript holds   *)
(* the buyer message and the returned supplier response as its last two    *)
(* entries, and the stored conversations are as they were.                 *)
(***************************************************************************)
C21_StoreFailureAbsorbed ==
    [][ StoreFailed =>
            /\ \E stored \in Exchanges(request'.message) :
                   /\ "conversation_collection.add" \in stored.called
                   /\ stored.response = result'
                   /\ stored.session = Session'
            /\ transcript' = transcript \o
                   <<[ role |-> "buyer", message |-> request'.message ],
                     [ role |-> "supplier", message |-> result'.response ]>>
            /\ result'.strategy \in StrategyLabels
            /\ snapshots' = snapshots ]_vars

\* the fourth exchange of the web server's session was answered although
\* the database did not add its snapshot
C21_Witness ==
    /\ frontend = "web_server"
    /\ Len(transcript) = 8
    /\ request.kind = "chat"
    /\ "store_conversation" \in called
    /\ "conversation_collection.add" \notin called
    /\ transcript[8] = [ role |-> "supplier", message |-> result.response ]
    /\ result.strategy \in StrategyLabels
    /\ snapshots = {}

\* NegotiationTrainerClient.summarize_transcript: the arguments the client
\* sends with the tools/call request
summarize_transcript(path) ==
    IF Truthy(path) THEN SetItem(<<>>, "transcript_path", path) ELSE <<>>

\* the step handled the request summarize_transcript() of the client, sent
\* without a path while the host's transcript holds a conversation
SummarizeInMemoryRequested ==
    /\ request'.name = SummarizeNegotiationTranscriptName
    /\ request'.arguments = summarize_transcript(<<>>)
    /\ Truthy(transcript)

(***************************************************************************)
(* C25: a summarize request that the MCP client sends without a transcript *)
(* path, while the host's in-memory transcript is non-empty, is answered   *)
(* with the analysis report of that transcript as JSON, not with an error  *)
(* text.                                                                   *)
(***************************************************************************)
C25_SummarizeInMemoryTranscript ==
    [][ SummarizeInMemoryRequested =>
            \E api \in HostProviderOutcomes :
                \E tool \in { summarize_negotiation_transcript_tool(
                                  <<>>, transcript, [ exists |-> FALSE ], api) } :
                    /\ tool.outcome.kind = "return"
                    /\ result' = CallToolResult(json_dumps(tool.outcome.value)) ]_vars

(***************************************************************************)
(* The web server under concurrent /chat requests.  uvicorn runs the app   *)
(* in one process on one event loop, and FastAPI runs an async def         *)
(* endpoint as a coroutine on that loop: the loop runs a handler until it  *)
(* awaits something that yields, and may then start or resume another      *)
(* handler.  chat_with_supplier awaits at line 116                         *)
(* (get_contextual_supplier_info), at line 131                             *)
(* (simulate_supplier_response_tool, which awaits the provider call after  *)
(* it selected the strategy) and at line 156 (store_conversation, after    *)
(* which it only returns).                                                 *)
(***************************************************************************)
MaxRequests == 3     \* /chat requests the server accepts

\* whether the coroutine awaited at the point yields to the event loop:
\* get_contextual_supplier_info awaits nothing, and the provider call ends
\* in the blocking clients openai.OpenAI and Anthropic
Yields_AsyncClient(await_point) == await_point = "generating"

Yields(await_point) == FALSE

\* the handler of a request the loop is about to start
Accepted(message) ==
    [ pc |-> "accepted", message |-> message, retrieved |-> <<>>,
      tool_result |-> <<>>, selected_from |-> <<>>, response |-> <<>> ]

\* lines 112-119: the guard and the retrieval, up to the await of line 116
Retrieve(handler, world) ==
    IF ~Truthy(world.session.current_supplier)
    THEN { [ handler |-> [ handler EXCEPT !.pc = "rejected",
                                          !.response = [ status_code |-> 500,
                                                         detail |-> NoSupplierLoaded ] ],
             world |-> world ] }
    ELSE { [ handler |-> [ handler EXCEPT !.pc = "retrieving",
                                          !.retrieved = get_contextual_supplier_info(results) ],
             world |-> world ] :
           results \in QueryResults(documents, world.session.current_supplier) }

\* lines 122-135: the merge into the session's profile and the call of the
\* tool with the session's transcript, up to the await of the provider call;
\* selected_from is the transcript the strategy was selected from
Generate(handler, world, provider) ==
    LET profile == MergedProfile(world.session.session_context, handler.retrieved)
    IN  { [ handler |-> [ handler EXCEPT !.pc = "generating",
                                         !.tool_result = tool.outcome.value,
                                         !.selected_from =
                                             world.session.negotiation_transcript ],
            world |-> [ world EXCEPT !.session.current_supplier_data = profile,
                                     !.session.session_context =
                                         SetItem(@, "supplier_data", profile) ] ] :
          tool \in { simulate_supplier_response_tool(
                         handler.message,
                         EnhancedContext(world.session.session_context, handler.retrieved),
                         world.session.negotiation_transcript, api) :
                     api \in provider } }

\* lines 137-164: the two entries, the periodic snapshot and the response;
\* the locals of the handler go with it
Respond(handler, world) ==
    LET extended == ExtendTranscript(world.session.negotiation_transcript,
                                     handler.message, handler.tool_result.response)
    IN  { [ handler |-> [ handler EXCEPT
                              !.pc = "done", !.retrieved = <<>>, !.tool_result = <<>>,
                              !.response = [ supplier_name |-> world.session.current_supplier,
                                             response |-> handler.tool_result.response,
                                             strategy |-> handler.tool_result.strategy ] ],
            world |-> [ session |-> [ world.session EXCEPT
                                          !.negotiation_transcript = extended ],
                        conversations |->
                            IF SnapshotDue(extended)
                            THEN store_conversation(
                                     ConversationData(extended,
                                                      world.session.current_supplier,
                                                      handler.tool_result.strategy),
                                     world.conversations, database_available)
                            ELSE world.conversations ] ] :
          database_available \in BOOLEAN }

\* the event loop runs the handler until it returns or awaits something
\* that yields: the ways the run can end
RECURSIVE Run(_, _, _)
Run(handler, world, provider) ==
    UNION { IF step.handler.pc \in {"done", "rejected"} \/ Yields(step.handler.pc)
            THEN { step }
            ELSE Run(step.handler, step.world, provider) :
            step \in IF handler.pc = "accepted" THEN Retrieve(handler, world)
                     ELSE IF handler.pc = "retrieving"
                     THEN Generate(handler, world, provider)
                     ELSE Respond(handler, world) }

(***************************************************************************)
(* SpecServer: the web server after the upload of a supplier's price list, *)
(* with /chat requests arriving at any time: the event loop starts the     *)
(* handler of a new request or resumes a handler that yielded.             *)
(***************************************************************************)
PriceListFile ==
    CHOOSE file \in UploadFiles : file.document_id = "d1"

\* the session upload_file leaves
InitServer ==
    /\ frontend = "web_server"
    /\ pc = "serving"
    /\ current_supplier = PriceListProfile.supplier_name
    /\ supplier_data = PriceListProfile
    /\ transcript = <<>>
    /\ session_context = [ supplier_data |-> PriceListProfile ]
    /\ documents = process_and_store_document(PriceListFile, {}).documents
    /\ snapshots = {}
    /\ request = [ kind |-> "upload", filename |-> PriceListFile.filename ]
    /\ result = [ success |-> TRUE, supplier_name |-> PriceListProfile.supplier_name ]
    /\ handlers = <<>>
    /\ called = {"process_and_store_document"}
    /\ user_message = <<>>
    /\ message_analysis = NotRun
    /\ strategy = NotRun
    /\ confidence = NotRun
    /\ llm_outcome = NotRun
    /\ transcript_path = <<>>
    /\ transcript_file = <<>>
    /\ buyer_inventory = <<>>
    /\ supplier_inventory = <<>>

\* the loop starts the handler of a new /chat request, or resumes one that
\* yielded, and runs it
ServeChat ==
    \E i \in 1..(Len(handlers) + 1), message \in HostMessages :
        /\ i <= MaxRequests
        /\ i <= Len(handlers) => handlers[i].pc \in {"retrieving", "generating"}
        /\ \E run \in Run(IF i <= Len(handlers) THEN handlers[i] ELSE Accepted(message),
                          [ session |-> Session, conversations |-> snapshots ],
                          HostProviderOutcomes) :
            /\ handlers' = IF i <= Len(handlers)
                           THEN [ handlers EXCEPT ![i] = run.handler ]
                           ELSE Append(handlers, run.handler)
            /\ request' = [ kind |-> "chat", message |-> run.handler.message ]
            /\ result' = run.handler.response
            /\ SetSession(run.world.session)
            /\ snapshots' = run.world.conversations
        /\ UNCHANGED <<pc, called, documents, frontend, user_message,
                       message_analysis, strategy, confidence, llm_outcome,
                       transcript_path, transcript_file, buyer_inventory,
                       supplier_inventory>>

\* reset_session awaits nothing
NextServer ==
    \/ ServeChat
    \/ ResetSession

SpecServer == InitServer /\ [][NextServer]_vars

\* the handler selected its strategy
Selected(handler) == handler.pc \in {"generating", "done"}

(***************************************************************************)
(* C22: the web server handles the /chat requests of its session one after *)
(* the other: when a handler has selected its strategy, every handler      *)
(* started before it has returned, and the transcript it selected from     *)
(* holds, behind the transcript the earlier handler selected from, the     *)
(* buyer message and the supplier response of that handler; so no two      *)
(* handlers selected their strategy from the same transcript.              *)
(***************************************************************************)
C22_OneRequestAtATime ==
    \A i, j \in DOMAIN handlers :
        i < j /\ Selected(handlers[i]) /\ Selected(handlers[j]) =>
            /\ handlers[i].pc = "done"
            /\ IsPrefix(ExtendTranscript(handlers[i].selected_from, handlers[i].message,
                                         handlers[i].response.response),
                        handlers[j].selected_from)
            /\ handlers[i].selected_from # handlers[j].selected_from

\* three requests were answered, each from the transcript the one before
\* left, with the strategies of the first, second and a later turn
C22_Witness ==
    /\ Len(handlers) = 3
    /\ \A i \in 1..3 : handlers[i].pc = "done" /\ Len(handlers[i].selected_from) = 2 * (i - 1)
    /\ handlers[1].response.strategy = "initial_response"
    /\ handlers[2].response.strategy = "building_relationship"
    /\ handlers[3].response.strategy \notin {"initial_response", "building_relationship"}
    /\ Len(transcript) = 6

(***************************************************************************)
(* C23: when the provider call fails while the tool answers a message with *)
(* supplier data loaded, the result has strategy "error" and confidence    *)
(* 0.0 and still carries the message analysis.                             *)
(***************************************************************************)
C23_ErrorStrategyOnFailure ==
    (pc = "done" /\ ~NoSupplierData /\ GenerationFailed) =>
        /\ result.kind = "return"
        /\ result.value.strategy = "error"
        /\ result.value.confidence = Float_0_0
        /\ "message_analysis" \in DOMAIN result.value

(***************************************************************************)
(* The command-line chats: NegotiationChat (chat.py), the loop of          *)
(* simple_chat.py and SmartSupplierChat (smart_chat.py).  Each keeps a     *)
(* session context, a negotiation transcript and a flag that supplier data *)
(* is loaded, and calls the tools directly; pc is "loading" while the flag *)
(* is False and "negotiating" once it is True.                             *)
(***************************************************************************)
InitChat ==
    /\ frontend \in {"chat", "simple_chat", "smart_chat"}
    /\ pc = "loading"
    /\ session_context = <<>>
    /\ transcript = <<>>
    /\ request = <<>>
    /\ result = NotRun
    /\ called = {}
    /\ handlers = <<>>
    /\ current_supplier = <<>>
    /\ supplier_data = <<>>
    /\ documents = <<>>
    /\ snapshots = <<>>
    /\ user_message = <<>>
    /\ message_analysis = NotRun
    /\ strategy = NotRun
    /\ confidence = NotRun
    /\ llm_outcome = NotRun
    /\ transcript_path = <<>>
    /\ transcript_file = <<>>
    /\ buyer_inventory = <<>>
    /\ supplier_inventory = <<>>

\* what a command leaves alone
ChatFrame ==
    UNCHANGED <<frontend, called, handlers, current_supplier, supplier_data,
                documents, snapshots, user_message, message_analysis, strategy,
                confidence, llm_outcome, transcript_path, transcript_file,
                buyer_inventory, supplier_inventory>>

\* the message a command prints instead of calling a tool
Warning(about) == [ kind |-> "warning", about |-> about ]

\* the files of the user's file system: a price list, a text where the
\* analyser matches nothing, a file of another format
ChatFileAt(path) ==
    IF path = FilePath(BareProfile)
    THEN [ exists |-> TRUE, analysis |-> Return(BareProfile) ]
    ELSE FileAt(path)

\* NegotiationChat.analyze_supplier, SmartSupplierChat.auto_load_supplier_data
\* and load_custom_file, and the loading at the start of simple_chat's main,
\* which ends the program when it fails
LoadSupplierData ==
    /\ pc \in {"loading", "negotiating"}
    /\ frontend = "simple_chat" => pc = "loading"
    /\ \E file_path \in { FilePath(CsvProfile), FilePath(BareProfile), NotesPath,
                          MissingPath } :
        \E tool \in { analyze_supplier_tool(file_path, session_context,
                                            ChatFileAt(file_path)) } :
            /\ request' = [ kind |-> "analyze", file_path |-> file_path ]
            /\ result' = tool.outcome
            /\ session_context' = tool.session_context
            /\ pc' = IF tool.outcome.kind = "return" THEN "negotiating"
                     ELSE IF frontend = "simple_chat" THEN "exited"
                     ELSE pc
    /\ UNCHANGED transcript
    /\ ChatFrame

\* NegotiationChat.negotiate, SmartSupplierChat.chat_with_supplier and the
\* last branch of simple_chat's loop: the tool is called with the session's
\* transcript and its response is printed
Negotiate ==
    /\ pc \in {"loading", "negotiating"}
    /\ frontend = "simple_chat" => pc = "negotiating"
    /\ \E message \in ToolMessages, api \in ProviderOutcomes :
        /\ request' = [ kind |-> "negotiate", message |-> message ]
        /\ IF pc = "loading"
           THEN result' = Warning("No supplier data loaded")
           ELSE \E tool \in { simulate_supplier_response_tool(
                                  message, session_context, transcript, api) } :
                    result' = tool.outcome
    /\ UNCHANGED <<pc, session_context, transcript>>
    /\ ChatFrame

\* NegotiationChat.summarize_conversation and the summary command of
\* simple_chat
SummarizeConversation ==
    /\ frontend \in {"chat", "simple_chat"}
    /\ pc \in {"loading", "negotiating"}
    /\ frontend = "simple_chat" => pc = "negotiating"
    /\ \E api \in SentimentOutcomes :
        /\ request' = [ kind |-> "summarize" ]
        /\ IF frontend = "chat" /\ ~Truthy(transcript)
           THEN result' = Warning("No conversation to analyze")
           ELSE \E tool \in { summarize_negotiation_transcript_tool(
                                  <<>>, transcript, [ exists |-> FALSE ], api) } :
                    result' = tool.outcome
    /\ UNCHANGED <<pc, session_context, transcript>>
    /\ ChatFrame

\* NegotiationChat.get_feedback and the feedback command of simple_chat
GetFeedback ==
    /\ frontend \in {"chat", "simple_chat"}
    /\ pc \in {"loading", "negotiating"}
    /\ frontend = "simple_chat" => pc = "negotiating"
    /\ \E api \in SentimentOutcomes, feedback_api \in HostProviderOutcomes :
        /\ request' = [ kind |-> "feedback" ]
        /\ IF frontend = "chat" /\ ~Truthy(transcript)
           THEN result' = Warning("No conversation to analyze")
           ELSE \E tool \in { summarize_negotiation_transcript_tool(
                                  <<>>, transcript, [ exists |-> FALSE ], api) } :
                    result' = IF tool.outcome.kind = "raise" THEN tool.outcome
                              ELSE Return(generate_feedback_tool(tool.outcome.value,
                                                                 feedback_api))
    /\ UNCHANGED <<pc, session_context, transcript>>
    /\ ChatFrame

NextChat ==
    \/ LoadSupplierData
    \/ Negotiate
    \/ SummarizeConversation
    \/ GetFeedback

SpecChat == InitChat /\ [][NextChat]_vars

\* the command of the step is a negotiate message that the supplier answers
NegotiateAnswered == request'.kind = "negotiate" /\ result'.kind = "return"

\* the command before the step was a negotiate message that was answered
AnsweredBefore ==
    /\ pc = "negotiating"
    /\ request.kind = "negotiate"
    /\ result.kind = "return"

(***************************************************************************)
(* C24: in the command-line chats an answered negotiate message appends    *)
(* the buyer message and the supplier response to the session transcript   *)
(* (so k answered messages leave 2k entries); a summarize or feedback      *)
(* command that follows an answered message analyses the conversation      *)
(* instead of reporting that there is none; and a message that follows an  *)
(* answered one is not strategized as the first of the conversation.       *)
(***************************************************************************)
C24_TranscriptHoldsExchanges ==
    [][ /\ NegotiateAnswered =>
               transcript' = transcript \o
                   <<[ role |-> "buyer", message |-> request'.message ],
                     [ role |-> "supplier", message |-> result'.value.response ]>>
        /\ AnsweredBefore /\ request'.kind \in {"summarize", "feedback"} =>
               result'.kind = "return"
        /\ AnsweredBefore /\ NegotiateAnswered =>
               result'.value.strategy # "initial_response" ]_vars

\* the step handled a /chat request that found no supplier loaded
ChatWithoutSupplier ==
    /\ frontend = "web_server"
    /\ ChatHandled
    /\ ~Truthy(current_supplier)

(***************************************************************************)
(* C26: a /chat request that the web server receives while no supplier is  *)
(* loaded (before any upload, or after a reset) is rejected with HTTP      *)
(* status 400 and the detail "No supplier loaded. Please upload a file     *)
(* first.", appends nothing to the transcript and does not call the        *)
(* response generator.                                                     *)
(***************************************************************************)
C26_RejectedWith400 ==
    [][ ChatWithoutSupplier =>
            /\ result'.status_code = 400
            /\ <<"4", "0", "0", ":", " ">> \o result'.detail = NoSupplierLoaded
            /\ transcript' = transcript
            /\ "simulate_supplier_response_tool" \notin called' ]_vars

(***************************************************************************)
(* SpecFrontEnds: the three programs that keep a transcript of the         *)
(* exchanges, each from its construction on: the MCP host, the web server  *)
(* and the autonomous agent.                                               *)
(***************************************************************************)
InitFrontEnds == InitHost \/ InitSession

NextFrontEnds ==
    \/ frontend = "host" /\ NextHost
    \/ frontend \in {"web_server", "autonomous_agent"} /\ NextSession

SpecFrontEnds == InitFrontEnds /\ [][NextFrontEnds]_vars

(***************************************************************************)
(* C27: in every reachable state of the MCP host, of the web server and of *)
(* the autonomous agent the transcript has an even length and alternates   *)
(* between the roles, starting with the buyer: every entry at an odd       *)
(* position (counted from 1) is a buyer entry and the entry behind it is a *)
(* supplier entry.                                                         *)
(***************************************************************************)
C27_BuyerSupplierAlternation ==
    /\ Len(transcript) % 2 = 0
    /\ \A i \in 1..Len(transcript) :
           /\ DOMAIN transcript[i] = {"role", "message"}
           /\ transcript[i].role = IF i % 2 = 1 THEN "buyer" ELSE "supplier"

\* the host answered a second message after an analysis, and the transcript
\* of four entries alternates
C27_Witness ==
    /\ frontend = "host"
    /\ Truthy(session_context)
    /\ Len(transcript) = 4
    /\ <<transcript[1].role, transcript[2].role, transcript[3].role,
         transcript[4].role>> = <<"buyer", "supplier", "buyer", "supplier">>
    /\ transcript[3].message = request.arguments.user_message

\* the web server answered a /chat request with a supplier response
WebChatAnswered ==
    /\ frontend = "web_server"
    /\ request'.kind = "chat"
    /\ "strategy" \in DOMAIN result'

\* upload_file stored a profile in the web server's session
WebUploadSucceeded ==
    /\ frontend = "web_server"
    /\ request'.kind = "upload"
    /\ result'.success

(***************************************************************************)
(* C28: in the web server the /chat requests answered since the most       *)
(* recent successful upload are counted by the transcript, two entries     *)
(* each: the first is answered with strategy initial_response, the second  *)
(* with building_relationship and every later one with one of defensive,   *)
(* competitive, opportunistic and collaborative, so that each of the first *)
(* two labels is returned at most once until the next upload or reset; a   *)
(* successful upload and a reset empty the transcript, and a /chat request *)
(* is answered only while a supplier is loaded.                            *)
(***************************************************************************)
C28_StrategyProgression ==
    [][ /\ WebChatAnswered =>
               /\ Truthy(current_supplier)
               /\ Len(transcript') = Len(transcript) + 2
               /\ Len(transcript) = 0 => result'.strategy = "initial_response"
               /\ Len(transcript) = 2 => result'.strategy = "building_relationship"
               /\ Len(transcript) >= 4 =>
                      result'.strategy \in {"defensive", "competitive",
                                            "opportunistic", "collaborative"}
               /\ result'.strategy = "initial_response" => Len(transcript) = 0
               /\ result'.strategy = "building_relationship" => Len(transcript) = 2
        /\ WebUploadSucceeded => transcript' = <<>>
        /\ (frontend = "web_server" /\ request'.kind = "reset") =>
               transcript' = <<>> /\ ~Truthy(current_supplier') ]_vars

\* after a session of four exchanges, whose snapshot is stored, a new upload
\* emptied the transcript, and the third /chat request since that upload was
\* answered with a label of the later turns
C28_Witness ==
    /\ frontend = "web_server"
    /\ Len(transcript) = 6
    /\ request.kind = "chat"
    /\ result.strategy = "collaborative"
    /\ transcript[2].role = "supplier"
    /\ \E s \in snapshots : s.outcome = "ongoing"

\* the entry is the supplier entry of an exchange answered with no_data or
\* with error
UnansweredEntry(entry) ==
    /\ entry.role = "supplier"
    /\ \/ entry.message = NoDataResponse
       \/ IsPrefix(ApologyPrefix, entry.message)

\* the step handles a simulate_supplier_response call with supplier data
\* loaded, and no earlier call was answered with it
FirstCallWithData ==
    /\ SimulateRequested
    /\ Truthy(SupplierDataOf(session_context))
    /\ \A i \in DOMAIN transcript :
           transcript[i].role = "supplier" => UnansweredEntry(transcript[i])

(***************************************************************************)
(* C29: in the MCP host the first simulate_supplier_response call answered *)
(* after supplier data was loaded selects the strategy initial_response,   *)
(* however many calls were answered with no_data or error before: the tool *)
(* run that produced the returned text and extended the transcript chose   *)
(* initial_response.                                                       *)
(***************************************************************************)
C29_InitialResponseAfterData ==
    [][ FirstCallWithData =>
            \A api \in HostProviderOutcomes :
                \A tool \in { simulate_supplier_response_tool(
                                  request'.arguments.user_message, session_context,
                                  transcript, api) } :
                    ( /\ tool.outcome.kind = "return"
                      /\ result' = CallToolResult(tool.outcome.value.response)
                      /\ transcript' = AppendExchange(transcript,
                                                      request'.arguments.user_message,
                                                      tool.outcome.value.response) )
                    => tool.outcome.value.strategy = "initial_response" ]_vars

\* the step handled an upload that failed: the web server refused the type
\* of the file, or process_and_store_document raised
UploadFailed ==
    /\ request'.kind = "upload"
    /\ \E file \in UploadFiles :
           /\ file.filename = request'.filename
           /\ \/ frontend = "web_server" /\ ~SupportedUpload(file.filename)
              \/ process_and_store_document(file, documents).outcome.kind = "raise"

====
